---- MODULE Spec2Model ----
(***************************************************************************)
(* Hash router, translation registry and their notification protocol of    *)
(* the dashboard shell (vite_frontend/src/router.js, i18n/translations.js, *)
(* main.js).  JavaScript strings are modelled as sequences of one-character*)
(* strings, so that trimming, slicing, splitting and percent-decoding are  *)
(* computed as the code computes them.                                     *)
(***************************************************************************)
EXTENDS Integers, Sequences, FiniteSets, TLC

(***************************************************************************)
(* String primitives of JavaScript                                         *)
(***************************************************************************)
NULL == <<"null">>
UNDEFINED == <<"undefined">>

\* F applied to the value of x, which is computed once
Eval(x, F(_)) == CHOOSE r \in {F(v) : v \in {x}} : TRUE

StartsWith(s, p) ==
    /\ Len(s) >= Len(p)
    /\ SubSeq(s, 1, Len(p)) = p

EndsWith(s, p) ==
    /\ Len(s) >= Len(p)
    /\ SubSeq(s, Len(s) - Len(p) + 1, Len(s)) = p

Slice(s, from) == SubSeq(s, from + 1, Len(s))

Slice2(s, from, to) == SubSeq(s, from + 1, IF to < Len(s) THEN to ELSE Len(s))

WhiteSpace == {" "}

RECURSIVE TrimStart(_)
TrimStart(s) ==
    IF s # <<>> /\ Head(s) \in WhiteSpace THEN TrimStart(Tail(s)) ELSE s

RECURSIVE TrimEnd(_)
TrimEnd(s) ==
    IF s # <<>> /\ s[Len(s)] \in WhiteSpace
    THEN TrimEnd(SubSeq(s, 1, Len(s) - 1))
    ELSE s

Trim(s) == TrimEnd(TrimStart(s))

\* s.indexOf(c): zero-based position of the first c, -1 when absent
IndexOf(s, c) ==
    IF \E i \in 1..Len(s) : s[i] = c
    THEN (CHOOSE i \in 1..Len(s) : s[i] = c /\ \A j \in 1..(i - 1) : s[j] # c) - 1
    ELSE -1

\* s.split(c): the sequence of the parts between the separators
RECURSIVE Split(_, _)
Split(s, c) ==
    LET i == IndexOf(s, c)
    IN  IF i = -1 THEN <<s>>
        ELSE <<Slice2(s, 0, i)>> \o Split(Slice(s, i + 1), c)

\* s.replace(/\/{2,}/g, '/')
RECURSIVE CollapseSlashes(_)
CollapseSlashes(s) ==
    IF Len(s) < 2 THEN s
    ELSE IF s[1] = "/" /\ s[2] = "/" THEN CollapseSlashes(Tail(s))
    ELSE <<Head(s)>> \o CollapseSlashes(Tail(s))

LowerOf(c) ==
    CASE c = "E" -> "e" [] c = "N" -> "n" [] c = "S" -> "s"
      [] c = "F" -> "f" [] c = "R" -> "r" [] c = "U" -> "u"
      [] c = "M" -> "m" [] c = "X" -> "x"
      [] OTHER -> c

ToLowerCase(s) == [i \in 1..Len(s) |-> LowerOf(s[i])]

(***************************************************************************)
(* decodeURIComponent: %XX escapes are decoded, a malformed escape or an   *)
(* invalid UTF-8 sequence raises URIError.                                 *)
(***************************************************************************)
HexDigits == {"0", "1", "2", "3", "4", "5", "6", "7", "8", "9",
              "a", "b", "c", "d", "e", "f", "A", "B", "C", "D", "E", "F"}

HexVal(c) ==
    CASE c = "0" -> 0 [] c = "1" -> 1 [] c = "2" -> 2 [] c = "3" -> 3
      [] c = "4" -> 4 [] c = "5" -> 5 [] c = "6" -> 6 [] c = "7" -> 7
      [] c = "8" -> 8 [] c = "9" -> 9
      [] c \in {"a", "A"} -> 10 [] c \in {"b", "B"} -> 11
      [] c \in {"c", "C"} -> 12 [] c \in {"d", "D"} -> 13
      [] c \in {"e", "E"} -> 14 [] c \in {"f", "F"} -> 15

AsciiPrintable ==
    <<" ", "!", "\"", "#", "$", "%", "&", "'", "(", ")", "*", "+", ",", "-",
    ".", "/", "0", "1", "2", "3", "4", "5", "6", "7", "8", "9", ":", ";", "<",
    "=", ">", "?", "@", "A", "B", "C", "D", "E", "F", "G", "H", "I", "J", "K",
    "L", "M", "N", "O", "P", "Q", "R", "S", "T", "U", "V", "W", "X", "Y", "Z",
    "[", "\\", "]", "^", "_", "backtick", "a", "b", "c", "d", "e", "f", "g", "h", "i",
    "j", "k", "l", "m", "n", "o", "p", "q", "r", "s", "t", "u", "v", "w", "x",
    "y", "z", "{", "|", "}", "~">>

\* the character of an ASCII byte; control bytes are kept as one opaque character
AsciiChar(n) == IF n >= 32 /\ n <= 126 THEN AsciiPrintable[n - 31] ELSE "\\c"

IsEscape(s) ==
    /\ Len(s) >= 3
    /\ s[1] = "%"
    /\ s[2] \in HexDigits
    /\ s[3] \in HexDigits

EscapeByte(s) == 16 * HexVal(s[2]) + HexVal(s[3])

\* number of continuation bytes a UTF-8 lead byte announces, -1 if it is no lead byte
Continuations(b) ==
    IF b >= 194 /\ b <= 223 THEN 1
    ELSE IF b >= 224 /\ b <= 239 THEN 2
    ELSE IF b >= 240 /\ b <= 244 THEN 3
    ELSE -1

RECURSIVE HasContinuations(_, _)
HasContinuations(s, k) ==
    IF k = 0 THEN TRUE
    ELSE /\ IsEscape(s)
         /\ EscapeByte(s) >= 128
         /\ EscapeByte(s) <= 191
         /\ HasContinuations(Slice(s, 3), k - 1)

URIError == [ok |-> FALSE, val |-> <<>>]

Ok(v) == [ok |-> TRUE, val |-> v]

RECURSIVE decodeURIComponent(_)
decodeURIComponent(s) ==
    LET plain(rest) == IF rest.ok THEN Ok(<<Head(s)>> \o rest.val) ELSE URIError
        escaped(rest) ==
            IF rest.ok
            THEN Ok(<<IF EscapeByte(s) < 128 THEN AsciiChar(EscapeByte(s)) ELSE "\\u">>
                    \o rest.val)
            ELSE URIError
        sequence(k) ==
            IF k = -1 \/ ~HasContinuations(Slice(s, 3), k) THEN URIError
            ELSE Eval(decodeURIComponent(Slice(s, 3 * (k + 1))), escaped)
    IN  IF s = <<>> THEN Ok(<<>>)
        ELSE IF Head(s) # "%" THEN Eval(decodeURIComponent(Tail(s)), plain)
        ELSE IF ~IsEscape(s) THEN URIError
        ELSE Eval(IF EscapeByte(s) < 128 THEN 0 ELSE Continuations(EscapeByte(s)),
                  sequence)

(***************************************************************************)
(* String literals of the program and of the inputs                        *)
(***************************************************************************)
S_home == <<"/", "h", "o", "m", "e">>

S_status == <<"/", "s", "t", "a", "t", "u", "s">>

S_basic == <<"/", "b", "a", "s", "i", "c">>

S_advanced == <<"/", "a", "d", "v", "a", "n", "c", "e", "d">>

S_management == <<"/", "m", "a", "n", "a", "g", "e", "m", "e", "n", "t">>

S_application == <<"/", "a", "p", "p", "l", "i", "c", "a", "t", "i", "o", "n">>

S_bad == <<"/", "b", "a", "d">>

S_basic_network == <<"/", "b", "a", "s", "i", "c", "/", "n", "e", "t", "w", "o", "r", "k">>

K_tab == <<"t", "a", "b">>

V_wifi == <<"w", "i", "f", "i">>

F_home == <<"#", "/", "h", "o", "m", "e">>

F_status_slash == <<"#", "/", "s", "t", "a", "t", "u", "s", "/">>

F_basic_wifi == <<"#", "/", "b", "a", "s", "i", "c", "/", "n", "e", "t", "w", "o", "r", "k", "?", "t", "a", "b", "=", "w", "i", "f", "i">>

F_home_malformed == <<"#", "/", "h", "o", "m", "e", "?", "x", "=", "%">>

F_bad == <<"#", "/", "b", "a", "d">>

F_homex == <<"#", "/", "h", "o", "m", "e", "x">>

F_home_x == <<"#", "/", "h", "o", "m", "e", "/", "x">>

F_application == <<"#", "/", "a", "p", "p", "l", "i", "c", "a", "t", "i", "o", "n">>

P_status == <<"/", "s", "t", "a", "t", "u", "s">>

P_basic_wifi == <<"/", "b", "a", "s", "i", "c", "/", "n", "e", "t", "w", "o", "r", "k", "?", "t", "a", "b", "=", "w", "i", "f", "i">>

P_bad == <<"/", "b", "a", "d">>

P_home_noslash == <<"h", "o", "m", "e">>

L_en == <<"e", "n">>

L_es == <<"e", "s">>

L_fr == <<"f", "r">>

L_constructor == <<"c", "o", "n", "s", "t", "r", "u", "c", "t", "o", "r">>

L_toString == <<"t", "o", "S", "t", "r", "i", "n", "g">>

L_valueOf == <<"v", "a", "l", "u", "e", "O", "f">>

L_hasOwnProperty == <<"h", "a", "s", "O", "w", "n", "P", "r", "o", "p", "e", "r", "t", "y">>

N_enUS == <<"e", "n", "-", "U", "S">>

N_ES == <<"E", "S">>

N_frFR == <<"f", "r", "-", "F", "R">>

F_empty == <<>>

P_empty == <<>>

(***************************************************************************)
(* Route Model (router.js)                                                 *)
(***************************************************************************)
ROUTE_WHITELIST ==
    {S_home, S_status, S_basic, S_advanced, S_management, S_application}

normalizePath(raw0) ==
    LET raw == IF raw0 = UNDEFINED \/ raw0 = NULL THEN <<>> ELSE raw0
        s2(s1) == IF StartsWith(s1, <<"#">>) THEN Slice(s1, 1) ELSE s1
        s3(s) == IF StartsWith(s, <<"!">>) THEN Slice(s, 1) ELSE s
        s4(s) == IF ~StartsWith(s, <<"/">>) THEN <<"/">> \o s ELSE s
        s5(s) == CollapseSlashes(s)
        onlyPath(s) == Split(s, "?")[1]
        cleaned(path) == IF Len(path) > 1 /\ EndsWith(path, <<"/">>)
                         THEN Slice2(path, 0, Len(path) - 1)
                         ELSE path
        result(path) == IF path = <<>> THEN <<"/">> ELSE path
    IN  Eval(Eval(Eval(Eval(Eval(Eval(Eval(Trim(raw), s2), s3), s4), s5), onlyPath),
                  cleaned), result)

EmptyObject == [k \in {} |-> <<>>]

\* out[key] = value
Put(out, key, value) ==
    [k \in (DOMAIN out) \cup {key} |-> IF k = key THEN value ELSE out[k]]

\* the loop of parseParams over the parts of the query, from part i on
RECURSIVE ParseParts(_, _, _)
ParseParts(parts, i, out) ==
    LET bare(key) ==
            IF ~key.ok THEN URIError
            ELSE ParseParts(parts, i + 1,
                     IF key.val # <<>> THEN Put(out, key.val, <<>>) ELSE out)
        pair(kv) ==
            IF ~kv[1].ok \/ ~kv[2].ok THEN URIError
            ELSE ParseParts(parts, i + 1,
                     IF kv[1].val # <<>> THEN Put(out, kv[1].val, kv[2].val) ELSE out)
        one(part) ==
            IF part = <<>> THEN ParseParts(parts, i + 1, out)
            ELSE IF IndexOf(part, "=") = -1 THEN Eval(decodeURIComponent(part), bare)
            ELSE Eval(<<decodeURIComponent(Slice2(part, 0, IndexOf(part, "="))),
                        decodeURIComponent(Slice(part, IndexOf(part, "=") + 1))>>,
                      pair)
    IN  IF i > Len(parts) THEN Ok(out) ELSE Eval(parts[i], one)

parseParams(raw) ==
    LET parse(parts) == ParseParts(parts, 1, EmptyObject)
    IN  IF raw = <<>> \/ raw = UNDEFINED \/ raw = NULL THEN Ok(EmptyObject)
        ELSE IF IndexOf(raw, "?") = -1 THEN Ok(EmptyObject)
        ELSE IF Slice(raw, IndexOf(raw, "?") + 1) = <<>> THEN Ok(EmptyObject)
        ELSE Eval(Split(Slice(raw, IndexOf(raw, "?") + 1), "&"), parse)

toSegments(path) ==
    IF path = <<>> \/ path = <<"/">> THEN <<>>
    ELSE SelectSeq(Split(path, "/"), LAMBDA p : p # <<>>)

\* the value null of _currentRoute: no route has an empty path
NullRoute == [path |-> <<>>, segments |-> <<>>, params |-> EmptyObject]

\* a URIError leaving buildRouteFrom
RouteError == [ok |-> FALSE, val |-> NullRoute]

\* rawHash || win.location.hash; the result is a route, or the URIError of parseParams
buildRouteFrom(rawHash, locationHash) ==
    LET raw == IF rawHash # <<>> THEN rawHash ELSE locationHash
        route(normalizedPath, params) ==
            IF ~params.ok THEN RouteError
            ELSE Ok([path |-> normalizedPath, segments |-> toSegments(normalizedPath),
                     params |-> params.val])
    IN  Eval(<<normalizePath(raw), parseParams(raw)>>, LAMBDA v : route(v[1], v[2]))

\* variant: the prefix test without the '/' that ends the whitelisted segment
isAllowedRoute_barePrefix(path) ==
    IF path = <<"/">> \/ path = <<>> THEN FALSE
    ELSE \E base \in ROUTE_WHITELIST : StartsWith(path, base)

isAllowedRoute(path) ==
    IF path = <<"/">> \/ path = <<>> THEN FALSE
    ELSE \E base \in ROUTE_WHITELIST :
            path = base \/ StartsWith(path, base \o <<"/">>)

(***************************************************************************)
(* Bounds of the model                                                     *)
(***************************************************************************)
MaxSignals == 2

MaxTimers == 2

MaxBurst == 3

MaxPlaceholders == 3

(***************************************************************************)
(* Inputs                                                                  *)
(***************************************************************************)
\* callbacks handed to the subscription interfaces; NotAFunction is any non-function
CB == {"cb1", "cb2"}

NotAFunction == "undefined"

\* what one invocation of a listener does: return, throw, call navigate, or
\* subscribe a further callback (as the sidebar's route listener does)
ListenerActs == {"return", "throw", "navigate", "subscribe"}

ListenerNavTarget == P_status

LateCallback == "cb2"

\* raw location fragments a user or a link can put into the address bar
Fragments == {F_empty, F_home, F_basic_wifi, F_home_malformed, F_homex}

\* what a run records besides the program's state: each run follows the navigate
\* calls, the debounce windows, the calls and returns of the operations, these
\* and the repeated subscriptions, or the resolutions that follow one navigate call
Observations == {"navigation", "debounce", "calls", "subscriptions", "once"}

\* arguments of navigate
NavPaths == {P_empty, P_status, P_basic_wifi, P_bad}

\* options.defaultRoute of initRouter
DefaultRouteOptions == {UNDEFINED, S_status, S_bad}

\* the options of navigate
NavOptions == {[replace |-> FALSE, silent |-> FALSE], [replace |-> TRUE, silent |-> TRUE]}

\* the smaller inputs of the runs that record every call and return
CallPaths == {P_status, P_bad}

CallDefaults == {UNDEFINED, S_status}

(***************************************************************************)
(* State                                                                   *)
(***************************************************************************)
VARIABLES
    hash,             \* win.location.hash
    _defaultRoute,    \* router.js:39
    _listeners,       \* router.js:40, a Set: insertion-ordered, no duplicates
    _currentRoute,    \* router.js:41
    _isInitialized,   \* router.js:42
    _debounceTimer,   \* router.js:45
    armedTimers,      \* timers armed with _setTimeout and neither fired nor cleared
    pendingSignals,   \* hashchange events the platform has queued
    subscriptions,    \* hashchange handlers the router has registered
    burst,            \* history: calls, runs, batches of the current debounce window
    watch,            \* history: the last navigate call and the resolutions since
    lastEmitted,      \* history: the route of the last emit
    invoked,          \* history: listener invocations of the last operation
    op,               \* history: the last operation
    returned,         \* history: what the last operation returned
    thrown,           \* history: the last operation ended with an uncaught exception
    resub,            \* history: callbacks subscribed again while registered
    observe,          \* which of the histories this run records
    _currentLang,     \* translations.js:22
    _langListeners,   \* translations.js:24, a Set
    _storage,         \* translations.js:21
    localStorage,     \* the entries of window.localStorage
    navLang           \* navigator.language

VARIABLES
    mainContent,      \* what the main container shows
    sidebarContent,   \* what the sidebar container shows
    headerContent,    \* what the header container shows
    rebuilt,          \* history: the regions the last operation has rebuilt
    reported,         \* history: the last operation has called console.error
    rendererThrew     \* history: a page renderer called by the last operation threw

appVars == <<mainContent, sidebarContent, headerContent, rebuilt, reported, rendererThrew>>

routerVars ==
    <<hash, _defaultRoute, _listeners, _currentRoute, _isInitialized,
      _debounceTimer, armedTimers, pendingSignals, subscriptions>>

historyVars == <<burst, watch, lastEmitted, invoked, op, returned, thrown, resub>>

i18nVars == <<_currentLang, _langListeners, _storage, localStorage, navLang>>

NoTimer == "null"

TimerHandle == "timer"

NoBurst == [calls |-> 0, runs |-> 0, batches |-> 0]

NoWatch == [phase |-> "none", path |-> <<>>, runs |-> 0, batches |-> 0]

NoReturn == [ok |-> TRUE, val |-> NullRoute]

Min(a, b) == IF a < b THEN a ELSE b

Range(s) == {s[i] : i \in 1..Len(s)}

\* variant: a list instead of a set, every add appends
SetAdd_append(s, x) == Append(s, x)

\* Set.prototype.add / Set.prototype.delete on an insertion-ordered set
SetAdd(s, x) == IF x \in Range(s) THEN s ELSE Append(s, x)

SetDelete(s, x) == SelectSeq(s, LAMBDA y : y # x)

\* what the shell's listeners read and write while a notification pass runs:
\* the three containers, the registry's language, the backing store, the
\* fragment and the router's route and listeners
AppState ==
    [main |-> mainContent, sidebar |-> sidebarContent, header |-> headerContent,
     rebuilt |-> {}, reported |-> FALSE, rendererThrows |-> FALSE,
     rendererThrew |-> FALSE, threw |-> FALSE,
     lang |-> _currentLang, store |-> localStorage, hash |-> hash,
     currentRoute |-> _currentRoute, routeListeners |-> _listeners]

\* the router's state as one value, threaded through the calls of a handler
RouterState ==
    [hash |-> hash, defaultRoute |-> _defaultRoute, listeners |-> _listeners,
     currentRoute |-> _currentRoute, isInitialized |-> _isInitialized,
     debounceTimer |-> _debounceTimer, armedTimers |-> armedTimers,
     pendingSignals |-> pendingSignals, subscriptions |-> subscriptions,
     burst |-> burst, watch |-> watch, lastEmitted |-> lastEmitted,
     invoked |-> <<>>, reentered |-> FALSE, emitted |-> FALSE, thrown |-> FALSE,
     resub |-> resub, app |-> AppState]

RecordsCalls == observe \in {"calls", "subscriptions"}

Commit(st) ==
    /\ hash' = st.hash
    /\ _defaultRoute' = st.defaultRoute
    /\ _listeners' = st.listeners
    /\ _currentRoute' = st.currentRoute
    /\ _isInitialized' = st.isInitialized
    /\ _debounceTimer' = st.debounceTimer
    /\ armedTimers' = st.armedTimers
    /\ pendingSignals' = st.pendingSignals
    /\ subscriptions' = st.subscriptions
    /\ burst' = IF observe = "debounce" THEN st.burst ELSE NoBurst
    /\ watch' = CASE observe = "navigation" ->
                          [st.watch EXCEPT !.runs = 0, !.batches = 0]
                   [] observe = "once" -> st.watch
                   [] OTHER -> NoWatch
    /\ lastEmitted' = st.lastEmitted
    /\ invoked' = IF RecordsCalls THEN st.invoked ELSE <<>>
    /\ thrown' = st.thrown
    /\ resub' = IF observe = "subscriptions" THEN st.resub ELSE {}
    /\ UNCHANGED <<observe, i18nVars>>

(***************************************************************************)
(* Keys of the backing store                                               *)
(***************************************************************************)
\* storage keys are sequences of name and separator tokens
_storageKey == <<"app", ":", "lang">>

withNamespace(ns, key) == ns \o <<":">> \o key

\* s.replace(pat, rep): the first occurrence only
RECURSIVE ReplaceFirst(_, _, _)
ReplaceFirst(s, pat, by) ==
    IF StartsWith(s, pat) THEN by \o Slice(s, Len(pat))
    ELSE IF s = <<>> THEN s
    ELSE <<Head(s)>> \o ReplaceFirst(Tail(s), pat, by)

BackingGetItem(store, k) == IF k \in DOMAIN store THEN store[k] ELSE NULL

\* get and set of createStorage(namespace) over a working backing store
StorageGet(store, ns, key, defaultValue) ==
    LET v == BackingGetItem(store, withNamespace(ns, key))
    IN  IF v = NULL THEN defaultValue ELSE v

StorageSet(store, ns, key, value) == Put(store, withNamespace(ns, key), value)

(***************************************************************************)
(* Namespaced store (utils/storage.js: createStorage)                      *)
(***************************************************************************)
\* the methods of the backing store; an operation is given those that throw
BackingMethods == {"getItem", "setItem", "removeItem", "key"}

\* JSON text as a sequence of tokens; an object as the sequence of its members
JsonPunctuation == {"{", "}", ":", ","}

JsonBoolean(b) == IF b THEN "true" ELSE "false"

RECURSIVE JsonMembers(_, _)
JsonMembers(o, i) ==
    IF i > Len(o) THEN <<>>
    ELSE (IF i > 1 THEN <<",">> ELSE <<>>)
         \o <<o[i].k, ":", JsonBoolean(o[i].v)>> \o JsonMembers(o, i + 1)

\* JSON.stringify(value) of an object of booleans
JsonStringify(o) == <<"{">> \o JsonMembers(o, 1) \o <<"}">>

JsonError == [ok |-> FALSE, val |-> <<>>]

\* a member read before the members rest: a repeated name keeps the first
\* position and the last value
JsonDefine(member, rest) ==
    IF \E j \in 1..Len(rest) : rest[j].k = member.k
    THEN <<[k |-> member.k,
            v |-> rest[CHOOSE j \in 1..Len(rest) : rest[j].k = member.k].v]>>
         \o SelectSeq(rest, LAMBDA m : m.k # member.k)
    ELSE <<member>> \o rest

\* the members of an object text, from token i on; anything else is a SyntaxError
RECURSIVE JsonParseMembers(_, _)
JsonParseMembers(text, i) ==
    IF i + 2 > Len(text) THEN JsonError
    ELSE IF \/ text[i] \in JsonPunctuation
            \/ text[i + 1] # ":"
            \/ text[i + 2] \notin {"true", "false"}
    THEN JsonError
    ELSE LET member == [k |-> text[i], v |-> text[i + 2] = "true"]
         IN  IF i + 2 = Len(text) THEN Ok(<<member>>)
             ELSE IF text[i + 3] # "," THEN JsonError
             ELSE LET rest == JsonParseMembers(text, i + 4)
                  IN  IF rest.ok
                      THEN Ok(JsonDefine(member, rest.val))
                      ELSE JsonError

\* JSON.parse(text)
JsonParse(text) ==
    IF Len(text) < 2 \/ text[1] # "{" \/ text[Len(text)] # "}" THEN JsonError
    ELSE IF Len(text) = 2 THEN Ok(<<>>)
    ELSE JsonParseMembers(SubSeq(text, 2, Len(text) - 1), 1)

RemoveItem(store, k) == [x \in (DOMAIN store) \ {k} |-> store[x]]

get(store, ns, key, defaultValue, fails) ==
    LET k == withNamespace(ns, key)
        v == BackingGetItem(store, k)
    IN  IF "getItem" \in fails THEN [ret |-> defaultValue, store |-> store, threw |-> FALSE]
        ELSE [ret |-> IF v = NULL THEN defaultValue ELSE v, store |-> store,
              threw |-> FALSE]

\* variant: no try/catch around store.setItem
set_noCatch(store, ns, key, value, fails) ==
    LET k == withNamespace(ns, key)
    IN  IF "setItem" \in fails THEN [ret |-> FALSE, store |-> store, threw |-> TRUE]
        ELSE [ret |-> TRUE, store |-> Put(store, k, value), threw |-> FALSE]

set(store, ns, key, value, fails) ==
    LET k == withNamespace(ns, key)
    IN  IF "setItem" \in fails THEN [ret |-> FALSE, store |-> store, threw |-> FALSE]
        ELSE [ret |-> TRUE, store |-> Put(store, k, value), threw |-> FALSE]

remove(store, ns, key, fails) ==
    LET k == withNamespace(ns, key)
    IN  IF "removeItem" \in fails THEN [ret |-> FALSE, store |-> store, threw |-> FALSE]
        ELSE [ret |-> TRUE, store |-> RemoveItem(store, k), threw |-> FALSE]

getJSON(store, ns, key, defaultValue, fails) ==
    LET raw == get(store, ns, key, NULL, fails).ret
        parsed == JsonParse(raw)
    IN  IF raw = NULL THEN [ret |-> defaultValue, store |-> store, threw |-> FALSE]
        ELSE [ret |-> IF parsed.ok THEN parsed.val ELSE defaultValue, store |-> store,
              threw |-> FALSE]

setJSON(store, ns, key, value, fails) == set(store, ns, key, JsonStringify(value), fails)

\* the keys of the backing store in the order store.key(i) yields them
RECURSIVE KeyOrder(_)
KeyOrder(S) ==
    IF S = {} THEN <<>>
    ELSE LET k == CHOOSE x \in S : TRUE
         IN  <<k>> \o KeyOrder(S \ {k})

RECURSIVE KeysFrom(_, _, _)
KeysFrom(all, ns, i) ==
    IF i > Len(all) THEN <<>>
    ELSE (IF StartsWith(all[i], ns \o <<":">>)
          THEN <<Slice(all[i], Len(ns) + 1)>>
          ELSE <<>>) \o KeysFrom(all, ns, i + 1)

keys(store, ns, fails) ==
    [ret |-> IF "key" \in fails THEN <<>> ELSE KeysFrom(KeyOrder(DOMAIN store), ns, 1),
     store |-> store, threw |-> FALSE]

RECURSIVE RemoveAll(_, _, _, _, _)
RemoveAll(store, ns, ks, i, fails) ==
    IF i > Len(ks) THEN store
    ELSE RemoveAll(remove(store, ns, ks[i], fails).store, ns, ks, i + 1, fails)

clearAll(store, ns, fails) ==
    [ret |-> UNDEFINED,
     store |-> RemoveAll(store, ns, keys(store, ns, fails).ret, 1, fails),
     threw |-> FALSE]

\* the namespaces and keys the shell, the header and the sidebar use
N_app == <<"app">>

N_app_sidebar == <<"app", ":", "sidebar">>

Sk_lang == <<"lang">>

Sk_expanded == <<"expanded">>

Sk_sidebar_expanded == <<"sidebar", ":", "expanded">>

\* getRoute()
getRoute(st) ==
    IF st.currentRoute # NullRoute THEN Ok(st.currentRoute)
    ELSE buildRouteFrom(st.hash, st.hash)

\* the closures attachBehaviors of the sidebar subscribes, one per call; beyond
\* MaxPlaceholders they are no longer told apart
PlaceholderIds ==
    <<"placeholder1", "placeholder2", "placeholder3", "placeholder4", "placeholder5",
      "placeholder6">>

Placeholders == {PlaceholderIds[i] : i \in 1..MaxPlaceholders}

FreshPlaceholder(ls) ==
    PlaceholderIds[Min(Cardinality(Range(ls) \cap Placeholders) + 1, MaxPlaceholders)]

(***************************************************************************)
(* Shell (main.js), sidebar (components/sidebar.js), header                *)
(***************************************************************************)
\* the containers before the shell is composed
EmptyMain == [kind |-> "empty", page |-> "none", lang |-> <<>>, props |-> EmptyObject]

EmptySidebar == [lang |-> <<>>, path |-> <<>>, open |-> {}]

EmptyHeader == [lang |-> <<>>, saved |-> NULL]

\* the fixed markup renderRoute writes when a renderer throws
ErrorPlaceholder ==
    [kind |-> "error", page |-> "none", lang |-> <<>>, props |-> EmptyObject]

K_sub == <<"s", "u", "b">>

V_preferences == <<"p", "r", "e", "f", "e", "r", "e", "n", "c", "e", "s">>

\* path === p || path.startsWith(p + '/')
AtOrBelow(path, p) == path = p \/ StartsWith(path, p \o <<"/">>)

\* the chain of tests in renderRoute: which page module renders the path
ResolvePage(path) ==
    IF path = S_home THEN "home"
    ELSE IF AtOrBelow(path, S_status) THEN "status"
    ELSE IF AtOrBelow(path, S_basic) THEN "basic"
    ELSE IF AtOrBelow(path, S_advanced) THEN "advanced"
    ELSE IF AtOrBelow(path, S_management) THEN "management"
    ELSE IF AtOrBelow(path, S_application) THEN "application"
    ELSE "notFound"

\* path.split('/')[2] || 'preferences'
SubOf(path) ==
    LET parts == Split(path, "/")
    IN  IF Len(parts) >= 3 /\ parts[3] # <<>> THEN parts[3] ELSE V_preferences

\* what a page module leaves in the container: its texts come from t(), that is
\* from the current language; only the application page is given properties,
\* { ...route.params, sub }
PageOutput(route, path, lang) ==
    [kind |-> "page", page |-> ResolvePage(path), lang |-> lang,
     props |-> IF ResolvePage(path) = "application"
               THEN Put(route.params, K_sub, SubOf(path))
               ELSE EmptyObject]

\* variant: no try/catch around the page module's render
renderRoute_noCatch(a) ==
    LET render(route) ==
            IF a.rendererThrows
            THEN [a EXCEPT !.rendererThrew = TRUE, !.threw = TRUE]
            ELSE [a EXCEPT !.main = Eval(IF route.path = <<>> THEN S_home
                                         ELSE route.path,
                                         LAMBDA path : PageOutput(route, path, a.lang)),
                           !.rebuilt = @ \cup {"main"}]
        got(r) == IF ~r.ok THEN [a EXCEPT !.threw = TRUE] ELSE render(r.val)
    IN  Eval(getRoute(a), got)

\* renderRoute(): getRoute() is called before the try block
renderRoute(a) ==
    LET render(route) ==
            IF a.rendererThrows
            THEN [a EXCEPT !.main = ErrorPlaceholder,
                           !.rebuilt = @ \cup {"main"},
                           !.reported = TRUE,
                           !.rendererThrew = TRUE]
            ELSE [a EXCEPT !.main = Eval(IF route.path = <<>> THEN S_home
                                         ELSE route.path,
                                         LAMBDA path : PageOutput(route, path, a.lang)),
                           !.rebuilt = @ \cup {"main"}]
        got(r) == IF ~r.ok THEN [a EXCEPT !.threw = TRUE] ELSE render(r.val)
    IN  Eval(getRoute(a), got)

\* the groups of NAV_STRUCTURE
NavGroups == {"status", "basic", "advanced", "management", "application"}

getExpandedMap(a) == getJSON(a.store, N_app_sidebar, Sk_expanded, <<>>, {}).ret

\* !!expanded[id]
IsOpen(expanded, id) ==
    \E i \in 1..Len(expanded) : expanded[i].k = id /\ expanded[i].v = TRUE

\* expanded[id] = next: a known name keeps its place, a new one goes last
Assign(expanded, id, next) ==
    IF \E i \in 1..Len(expanded) : expanded[i].k = id
    THEN [i \in 1..Len(expanded) |->
             IF expanded[i].k = id THEN [k |-> id, v |-> next] ELSE expanded[i]]
    ELSE Append(expanded, [k |-> id, v |-> next])

setExpandedMap(a, map) ==
    [a EXCEPT !.store = setJSON(@, N_app_sidebar, Sk_expanded, map, {}).store]

\* variant: every group is rendered closed
renderSidebar_closed(a, routePath) ==
    [a EXCEPT !.sidebar = [lang |-> a.lang, path |-> routePath, open |-> {}],
              !.rebuilt = @ \cup {"sidebar"}]

renderSidebar(a, routePath) ==
    [a EXCEPT !.sidebar = [lang |-> a.lang, path |-> routePath,
                           open |-> {g \in NavGroups : IsOpen(getExpandedMap(a), g)}],
              !.rebuilt = @ \cup {"sidebar"}]

\* attachBehaviors of the sidebar: each call subscribes one more empty closure
\* to the router, which is never unsubscribed
attachBehaviors(a) ==
    [a EXCEPT !.routeListeners = SetAdd(@, FreshPlaceholder(@))]

\* routerAdapter.getRoute(): the fragment without its '#', not normalized
routerAdapterGetRoute(a) ==
    IF a.hash = <<>> THEN S_home
    ELSE IF Head(a.hash) = "#" THEN Tail(a.hash) ELSE a.hash

\* variant: the sidebar's route listener does nothing
routeListener_idle(a) == a

\* the sidebar's listeners: render again, attach again
routeListener(a) ==
    Eval(renderSidebar(a, routerAdapterGetRoute(a)), LAMBDA x : attachBehaviors(x))

langListener(a) ==
    Eval(renderSidebar(a, routerAdapterGetRoute(a)), LAMBDA x : attachBehaviors(x))

\* renderHeader: the title and labels in the current language; the language
\* switcher reads the saved language and calls setLanguage(saved) only when
\* it differs from the current one
renderHeader(a) ==
    [a EXCEPT !.header = [lang |-> a.lang, saved |-> get(a.store, N_app, Sk_lang, NULL, {}).ret],
              !.rebuilt = @ \cup {"header"}]

\* the header's listener
onLangChange(a) == renderHeader(a)

(***************************************************************************)
(* Router (router.js)                                                      *)
(***************************************************************************)
\* variant: the pending timer is not cleared before the next one is armed
debouncedHandleRouteChange_noClear(st) ==
    [st EXCEPT
        !.armedTimers = Min(@ + 1, MaxTimers),
        !.debounceTimer = TimerHandle,
        !.burst = IF st.armedTimers = 0
                  THEN [calls |-> 1, runs |-> 0, batches |-> 0]
                  ELSE [@ EXCEPT !.calls = Min(@ + 1, MaxBurst)]]

debouncedHandleRouteChange(st) ==
    LET cleared == IF st.debounceTimer # NoTimer /\ st.armedTimers > 0
                   THEN st.armedTimers - 1
                   ELSE st.armedTimers
    IN  [st EXCEPT
            !.armedTimers = Min(cleared + 1, MaxTimers),
            !.debounceTimer = TimerHandle,
            !.burst = IF st.armedTimers = 0
                      THEN [calls |-> 1, runs |-> 0, batches |-> 0]
                      ELSE [@ EXCEPT !.calls = Min(@ + 1, MaxBurst)]]

\* variant: navigate resolves the target at once instead of arming the timer only
navigate_eager(st, path, replace, silent) ==
    LET normalized == normalizePath(IF path = UNDEFINED THEN <<>> ELSE path)
        targetHash == <<"#">> \o normalized
        written == [st EXCEPT
                       !.hash = targetHash,
                       !.currentRoute = buildRouteFrom(targetHash, targetHash).val,
                       !.pendingSignals = IF targetHash # st.hash
                                          THEN Min(@ + 1, MaxSignals)
                                          ELSE @]
    IN  IF ~silent THEN debouncedHandleRouteChange(written) ELSE written

\* variant: the silent option is ignored
navigate_noSilent(st, path, replace, silent) ==
    LET normalized == normalizePath(IF path = UNDEFINED THEN <<>> ELSE path)
        targetHash == <<"#">> \o normalized
        written == [st EXCEPT
                       !.hash = targetHash,
                       !.pendingSignals = IF targetHash # st.hash
                                          THEN Min(@ + 1, MaxSignals)
                                          ELSE @]
    IN  debouncedHandleRouteChange(written)

\* replace and push write the same fragment; they differ in the history stack only
navigate(st, path, replace, silent) ==
    LET normalized == normalizePath(IF path = UNDEFINED THEN <<>> ELSE path)
        targetHash == <<"#">> \o normalized
        written == [st EXCEPT
                       !.hash = targetHash,
                       !.pendingSignals = IF targetHash # st.hash
                                          THEN Min(@ + 1, MaxSignals)
                                          ELSE @]
    IN  IF ~silent THEN debouncedHandleRouteChange(written) ELSE written

onRouteChangeOp(st, cb) ==
    IF cb = NotAFunction THEN st
    ELSE [st EXCEPT
             !.listeners = SetAdd(@, cb),
             !.resub = IF cb \in Range(st.listeners) THEN @ \cup {<<"route", cb>>} ELSE @]

offRouteChangeOp(st, cb) ==
    IF cb = NotAFunction THEN st
    ELSE [st EXCEPT
             !.listeners = SetDelete(@, cb),
             !.resub = @ \ {<<"route", cb>>}]

\* one invocation cb(route) inside try/catch: the call is recorded, then the
\* callback acts; an exception it throws is swallowed
InvokeListener(st, cb, route, act) ==
    LET seen == [st.app EXCEPT !.hash = st.hash,
                               !.currentRoute = st.currentRoute,
                               !.routeListeners = st.listeners,
                               !.threw = FALSE]
        run(x) == CASE act = "sidebar" -> routeListener(x)
                    [] act = "render" -> renderRoute(x)
                    [] OTHER -> x
        called(a) == [st EXCEPT !.invoked =
                         Append(@, [cb |-> cb, arg |-> route,
                                    threw |-> act = "throw" \/ a.threw])]
        acted(a) ==
            CASE act = "navigate" ->
                     [navigate(called(a), ListenerNavTarget, FALSE, FALSE)
                         EXCEPT !.watch = NoWatch, !.reentered = TRUE]
              [] act = "subscribe" ->
                     [onRouteChangeOp(called(a), LateCallback) EXCEPT !.reentered = TRUE]
              [] act = "sidebar" ->
                     [called(a) EXCEPT !.app = a, !.listeners = a.routeListeners,
                                       !.reentered = TRUE]
              [] act = "render" -> [called(a) EXCEPT !.app = a]
              [] OTHER -> called(a)
    IN  Eval(Eval(seen, run), acted)

\* variant: no try/catch around cb(route), the first exception ends the pass
RECURSIVE EmitFrom_noCatch(_, _, _, _)
EmitFrom_noCatch(st, route, i, acts) ==
    IF i > Len(st.listeners) THEN st
    ELSE LET after == InvokeListener(st, st.listeners[i], route, acts[st.listeners[i]])
         IN  IF acts[st.listeners[i]] = "throw" THEN [after EXCEPT !.thrown = TRUE]
             ELSE EmitFrom_noCatch(after, route, i + 1, acts)

\* for (const cb of _listeners): the iteration visits callbacks added during the pass
RECURSIVE EmitFrom(_, _, _, _)
EmitFrom(st, route, i, acts) ==
    IF i > Len(st.listeners) THEN st
    ELSE Eval(InvokeListener(st, st.listeners[i], route, acts[st.listeners[i]]),
              LAMBDA called : EmitFrom(called, route, i + 1, acts))

emit(st, route, acts) ==
    EmitFrom([st EXCEPT !.currentRoute = route,
                        !.lastEmitted = route,
                        !.emitted = TRUE,
                        !.burst = [@ EXCEPT !.batches = @ + 1],
                        !.watch = IF @.phase = "none" THEN @
                                  ELSE [@ EXCEPT !.batches = Min(@ + 1, MaxBurst)]],
             route, 1, acts)

\* variant: the redirect goes to '/home' instead of the configured default route
handleRouteChange_redirectHome(st, acts) ==
    LET route == buildRouteFrom(st.hash, st.hash)
    IN  IF ~route.ok THEN [st EXCEPT !.thrown = TRUE]
        ELSE IF ~isAllowedRoute(route.val.path)
        THEN navigate(st, S_home, TRUE, FALSE)
        ELSE emit(st, route.val, acts)

handleRouteChange(st, acts) ==
    LET handle(route) ==
            IF ~route.ok THEN [st EXCEPT !.thrown = TRUE]
            ELSE IF ~isAllowedRoute(route.val.path)
            THEN navigate(st, st.defaultRoute, TRUE, FALSE)
            ELSE emit(st, route.val, acts)
    IN  Eval(buildRouteFrom(st.hash, st.hash), handle)

(***************************************************************************)
(* Operations of the router and signals of the platform                    *)
(***************************************************************************)
NoOp ==
    [name |-> "load", cb |-> NotAFunction, arg |-> <<>>, reentered |-> FALSE,
     emitted |-> FALSE]

\* the listeners a notification pass over ls can reach, and what each of them does
ActsOf(ls) == [Range(ls) \cup {LateCallback} -> ListenerActs]

RouterDone(st, name, cb, ret) ==
    /\ Commit(st)
    /\ op' = IF RecordsCalls
             THEN [name |-> name, cb |-> cb, arg |-> <<>>, reentered |-> st.reentered,
                   emitted |-> st.emitted]
             ELSE NoOp
    /\ returned' = IF RecordsCalls THEN ret ELSE NoReturn

\* an operation that touches none of the containers
AppUntouched ==
    /\ rebuilt' = {}
    /\ reported' = FALSE
    /\ rendererThrew' = FALSE
    /\ UNCHANGED <<mainContent, sidebarContent, headerContent>>

\* the state a handler ends in is computed once, then committed
Done(st, name, cb, ret) ==
    \E s \in {st} :
        /\ RouterDone(s, name, cb, ret)
        /\ AppUntouched

\* variant: a second initRouter registers the listener without replaying the route
InitRouter_noReplay(cb, dr, act) ==
    LET st0 == RouterState
        st1 == IF dr # UNDEFINED /\ dr # <<>>
               THEN [st0 EXCEPT !.defaultRoute = normalizePath(dr), !.watch = NoWatch]
               ELSE st0
    IN  IF _isInitialized
        THEN Done(onRouteChangeOp(st1, cb), "initRouter", cb, NoReturn)
        ELSE LET st2 == onRouteChangeOp([st1 EXCEPT !.isInitialized = TRUE], cb)
                 st3 == [st2 EXCEPT !.subscriptions = @ + 1]
             IN  Done(debouncedHandleRouteChange(st3), "initRouter", cb, NoReturn)

\* initRouter(options)
InitRouter(cb, dr, act) ==
    LET st0 == RouterState
        st1 == IF dr # UNDEFINED /\ dr # <<>>
               THEN [st0 EXCEPT !.defaultRoute = normalizePath(dr), !.watch = NoWatch]
               ELSE st0
    IN  IF _isInitialized
        THEN LET st2 == onRouteChangeOp(st1, cb)
                 st3 == IF cb # NotAFunction /\ st2.currentRoute # NullRoute
                        THEN InvokeListener(st2, cb, st2.currentRoute, act)
                        ELSE st2
             IN  Done(st3, "initRouter", cb, NoReturn)
        ELSE LET st2 == onRouteChangeOp([st1 EXCEPT !.isInitialized = TRUE], cb)
                 st3 == [st2 EXCEPT !.subscriptions = @ + 1]
             IN  Done(debouncedHandleRouteChange(st3), "initRouter", cb, NoReturn)

\* navigate(path, {replace, silent}) called by the application
Navigate(path, replace, silent) ==
    LET st0 == [RouterState EXCEPT !.watch = [phase |-> "armed", path |-> path,
                                             runs |-> 0, batches |-> 0]]
    IN  Done(navigate(st0, path, replace, silent), "navigate", NotAFunction, NoReturn)

\* getRoute()
GetRoute ==
    LET r == getRoute(RouterState)
    IN  Done([RouterState EXCEPT !.thrown = ~r.ok], "getRoute", NotAFunction, r)

\* onRouteChange(cb)
OnRouteChange(cb) ==
    Done(onRouteChangeOp(RouterState, cb), "onRouteChange", cb, NoReturn)

\* offRouteChange(cb)
OffRouteChange(cb) ==
    Done(offRouteChangeOp(RouterState, cb), "offRouteChange", cb, NoReturn)

\* the debounce timer expires: the callback given to _setTimeout runs
TimerFire(acts) ==
    /\ armedTimers > 0
    /\ LET st0 == [RouterState EXCEPT
                      !.armedTimers = @ - 1,
                      !.debounceTimer = NoTimer,
                      !.burst = [@ EXCEPT !.runs = Min(@ + 1, MaxBurst)],
                      !.watch = IF @.phase = "none" THEN @
                                ELSE [@ EXCEPT !.phase = "resolved",
                                               !.runs = Min(@ + 1, MaxBurst)]]
       IN  Done(handleRouteChange(st0, acts), "timer", NotAFunction, NoReturn)

\* the platform delivers one queued hashchange event to the registered handlers
DeliverSignal ==
    /\ pendingSignals > 0
    /\ LET st0 == [RouterState EXCEPT !.pendingSignals = @ - 1]
       IN  Done(IF subscriptions > 0 THEN debouncedHandleRouteChange(st0) ELSE st0,
                "hashchange", NotAFunction, NoReturn)

\* the user edits the fragment or follows a link: the platform queues a hashchange
UserSetsHash(f) ==
    /\ f # hash
    /\ Done([RouterState EXCEPT
                !.hash = f,
                !.pendingSignals = Min(@ + 1, MaxSignals),
                !.watch = NoWatch],
            "userhash", NotAFunction, NoReturn)

RouterInit ==
    /\ hash \in Fragments
    /\ _defaultRoute = S_home
    /\ _listeners = <<>>
    /\ _currentRoute = NullRoute
    /\ _isInitialized = FALSE
    /\ _debounceTimer = NoTimer
    /\ armedTimers = 0
    /\ pendingSignals = 0
    /\ subscriptions = 0
    /\ burst = NoBurst
    /\ watch = NoWatch
    /\ lastEmitted = NullRoute
    /\ invoked = <<>>
    /\ op = NoOp
    /\ returned = NoReturn
    /\ thrown = FALSE
    /\ resub = {}

vars == <<routerVars, historyVars, observe, i18nVars, appVars>>

(***************************************************************************)
(* Translation registry (i18n/translations.js) and the store behind it     *)
(***************************************************************************)
\* const dictionaries = { en, es }
DictionaryKeys == {L_en, L_es}

\* names every object literal inherits from Object.prototype
ObjectPrototypeKeys == {L_constructor, L_toString, L_valueOf, L_hasOwnProperty}

\* the truthiness of dictionaries[x]: an own key or an inherited property
DictionaryLookup(x) == x \in DictionaryKeys \/ x \in ObjectPrototypeKeys

\* the storage objects initI18n can end up with
NoStorage == "null"

Adapter == "adapter"

SafeLocalStorage == "safeLocalStorage"

\* getItem / setItem of main.js's adapter over createStorage('app'), and of safeLocalStorage
GetItem(storage, store, k) ==
    IF storage = Adapter
    THEN StorageGet(store, <<"app">>, ReplaceFirst(k, <<"app", ":">>, <<>>), NULL)
    ELSE BackingGetItem(store, k)

SetItem(storage, store, k, v) ==
    IF storage = Adapter
    THEN StorageSet(store, <<"app">>, ReplaceFirst(k, <<"app", ":">>, <<>>), v)
    ELSE Put(store, k, v)

LangState ==
    [currentLang |-> _currentLang, listeners |-> _langListeners, storage |-> _storage,
     localStorage |-> localStorage, invoked |-> <<>>, thrown |-> FALSE, resub |-> resub,
     app |-> AppState]

\* what one invocation of a language listener does
LangListenerActs == {"return", "throw"}

LangActsOf(ls) == [Range(ls) -> LangListenerActs]

\* the language a store holds under the language key
Persisted(store) == BackingGetItem(store, _storageKey)

\* one invocation cb(lang) inside try/catch; the record keeps what the callback
\* can read while it runs: getLanguage() and the persisted language
InvokeLangListener(st, cb, lang, act) ==
    LET seen == [st.app EXCEPT !.lang = st.currentLang,
                               !.store = st.localStorage,
                               !.threw = FALSE]
        run(x) == CASE act = "sidebar" -> langListener(x)
                    [] act = "header" -> onLangChange(x)
                    [] act = "render" -> renderRoute(x)
                    [] OTHER -> st.app
        called(a) ==
            [st EXCEPT
                !.app = a,
                !.invoked =
                    Append(@, [cb |-> cb, arg |-> lang,
                               threw |-> act = "throw" \/ a.threw,
                               current |-> st.currentLang,
                               stored |-> Persisted(st.localStorage)])]
    IN  Eval(Eval(seen, run), called)

\* variant: no try/catch around cb(lang), the first exception ends the pass
RECURSIVE EmitLangFrom_noCatch(_, _, _, _)
EmitLangFrom_noCatch(st, lang, i, acts) ==
    IF i > Len(st.listeners) THEN st
    ELSE LET cb == st.listeners[i]
             called == InvokeLangListener(st, cb, lang, acts[cb])
         IN  IF acts[cb] = "throw" THEN [called EXCEPT !.thrown = TRUE]
             ELSE EmitLangFrom_noCatch(called, lang, i + 1, acts)

RECURSIVE EmitLangFrom(_, _, _, _)
EmitLangFrom(st, lang, i, acts) ==
    IF i > Len(st.listeners) THEN st
    ELSE Eval(InvokeLangListener(st, st.listeners[i], lang, acts[st.listeners[i]]),
              LAMBDA called : EmitLangFrom(called, lang, i + 1, acts))

emitLanguageChange(st, lang, acts) == EmitLangFrom(st, lang, 1, acts)

\* the language initI18n detects from navigator.language, or the current one
DetectedLang(st) ==
    IF navLang = UNDEFINED THEN st.currentLang
    ELSE LET short == ToLowerCase(Slice2(navLang, 0, 2))
         IN  IF DictionaryLookup(short) THEN short ELSE st.currentLang

initI18n(st, storage, acts) ==
    LET st1 == [st EXCEPT !.storage = IF storage = Adapter THEN Adapter ELSE SafeLocalStorage]
        saved == GetItem(st1.storage, st1.localStorage, _storageKey)
        st2 == IF saved # NULL /\ saved # <<>> /\ DictionaryLookup(saved)
               THEN [st1 EXCEPT !.currentLang = saved]
               ELSE LET lang == DetectedLang(st1)
                    IN  [st1 EXCEPT
                            !.currentLang = lang,
                            !.localStorage = SetItem(st1.storage, @, _storageKey, lang)]
    IN  emitLanguageChange(st2, st2.currentLang, acts)

\* variant: the new language is not written to the store
setLanguage_noPersist(st, lang, acts) ==
    IF lang = UNDEFINED \/ ~DictionaryLookup(lang) THEN st
    ELSE emitLanguageChange([st EXCEPT !.currentLang = lang], lang, acts)

setLanguage(st, lang, acts) ==
    IF lang = UNDEFINED \/ ~DictionaryLookup(lang) THEN st
    ELSE LET st1 == [st EXCEPT
                        !.currentLang = lang,
                        !.localStorage =
                            SetItem(IF st.storage # NoStorage THEN st.storage
                                    ELSE SafeLocalStorage, @, _storageKey, lang)]
         IN  emitLanguageChange(st1, lang, acts)

LangCommit(st, name, cb, arg) ==
    /\ _currentLang' = st.currentLang
    /\ _langListeners' = st.listeners
    /\ _storage' = st.storage
    /\ localStorage' = st.localStorage
    /\ invoked' = st.invoked
    /\ thrown' = st.thrown
    /\ op' = [name |-> name, cb |-> cb, arg |-> arg, reentered |-> FALSE,
              emitted |-> st.invoked # <<>>]
    /\ returned' = NoReturn
    /\ resub' = IF observe = "subscriptions" THEN st.resub ELSE {}
    /\ UNCHANGED <<burst, watch, lastEmitted, observe, navLang>>

\* an operation of the registry that touches neither the router nor the containers
LangDone(st, name, cb, arg) ==
    \E s \in {st} :
        /\ LangCommit(s, name, cb, arg)
        /\ AppUntouched
        /\ UNCHANGED routerVars

\* initI18n(storage)
InitI18n(storage, acts) ==
    LangDone(initI18n(LangState, storage, acts), "initI18n", NotAFunction, <<>>)

\* setLanguage(lang)
SetLanguage(lang, acts) ==
    LangDone(setLanguage(LangState, lang, acts), "setLanguage", NotAFunction, lang)

\* onLanguageChange(cb)
OnLanguageChange(cb) ==
    LangDone(IF cb = NotAFunction THEN LangState
             ELSE [LangState EXCEPT
                      !.listeners = SetAdd(@, cb),
                      !.resub = IF cb \in Range(_langListeners)
                                THEN @ \cup {<<"lang", cb>>} ELSE @],
             "onLanguageChange", cb, <<>>)

\* offLanguageChange(cb)
OffLanguageChange(cb) ==
    LangDone(IF cb = NotAFunction THEN LangState
             ELSE [LangState EXCEPT
                      !.listeners = SetDelete(@, cb),
                      !.resub = @ \ {<<"lang", cb>>}],
             "offLanguageChange", cb, <<>>)

\* the user clears the data the site has stored (window.localStorage.clear())
StorageCleared ==
    /\ localStorage # EmptyObject
    /\ LangDone([LangState EXCEPT !.localStorage = EmptyObject], "clear", NotAFunction, <<>>)

\* arguments of setLanguage
LangArgs == {UNDEFINED, L_en, L_es, L_fr, L_constructor}

\* what an earlier session can have left under the language key
PersistedLangs == {L_en, L_es, L_fr, L_toString, <<>>}

\* navigator.language
NavLangs == {UNDEFINED, N_enUS, N_ES, N_frFR}

\* the storage argument of initI18n: main.js's adapter, or none
StorageArgs == {Adapter, "undefined"}

I18nInit ==
    /\ _currentLang = L_en
    /\ _langListeners = <<>>
    /\ _storage = NoStorage
    /\ localStorage \in {EmptyObject} \cup {Put(EmptyObject, _storageKey, v) : v \in PersistedLangs}
    /\ navLang \in NavLangs

AppIdle ==
    /\ mainContent = EmptyMain
    /\ sidebarContent = EmptySidebar
    /\ headerContent = EmptyHeader
    /\ rebuilt = {}
    /\ reported = FALSE
    /\ rendererThrew = FALSE

\* the state of the translation registry while the router is observed
I18nIdle ==
    /\ _currentLang = L_en
    /\ _langListeners = <<>>
    /\ _storage = NoStorage
    /\ localStorage = EmptyObject
    /\ navLang = N_enUS

\* the router, recording the calls and returns of its operations
Init ==
    /\ RouterInit
    /\ I18nIdle
    /\ AppIdle
    /\ observe = "calls"

Next ==
    \/ \E cb \in CB \cup {NotAFunction},
          dr \in (IF observe = "calls" THEN CallDefaults ELSE DefaultRouteOptions) :
          \E act \in (IF _isInitialized /\ cb # NotAFunction /\ _currentRoute # NullRoute
                      THEN ListenerActs ELSE {"return"}) :
             InitRouter(cb, dr, act)
    \/ \E path \in (IF observe = "calls" THEN CallPaths ELSE NavPaths), o \in NavOptions :
          Navigate(path, o.replace, o.silent)
    \/ GetRoute
    \/ \E cb \in CB \cup {NotAFunction} : OnRouteChange(cb)
    \/ \E cb \in CB \cup {NotAFunction} : OffRouteChange(cb)
    \/ \E acts \in ActsOf(_listeners) : TimerFire(acts)
    \/ DeliverSignal
    \/ \E f \in Fragments : UserSetsHash(f)

Spec == Init /\ [][Next]_vars

\* the router, recording the navigate calls and their resolution
InitNavigation ==
    /\ RouterInit
    /\ I18nIdle
    /\ AppIdle
    /\ observe = "navigation"

SpecNavigation == InitNavigation /\ [][Next]_vars

\* the router, recording the debounce windows
InitDebounce ==
    /\ RouterInit
    /\ I18nIdle
    /\ AppIdle
    /\ observe = "debounce"

SpecDebounce == InitDebounce /\ [][Next]_vars

TypeOK ==
    /\ armedTimers \in 0..MaxTimers
    /\ pendingSignals \in 0..MaxSignals
    /\ _debounceTimer \in {NoTimer, TimerHandle}
    /\ Range(_listeners) \subseteq CB

(***************************************************************************)
(* Translation lookup (i18n/translations.js: pathGet and t)                *)
(***************************************************************************)
\* values of the dictionaries and what t returns: strings, numbers, objects, undefined
JsUndefined == [kind |-> "undefined", fields |-> <<>>, str |-> <<>>, num |-> 0]

JsString(s) == [kind |-> "string", fields |-> <<>>, str |-> s, num |-> 0]

JsNumber(n) == [kind |-> "number", fields |-> <<>>, str |-> <<>>, num |-> n]

JsObject(f) == [kind |-> "object", fields |-> f, str |-> <<>>, num |-> 0]

W_app == <<"a", "p", "p">>

W_title == <<"t", "i", "t", "l", "e">>

W_header == <<"h", "e", "a", "d", "e", "r">>

W_language == <<"l", "a", "n", "g", "u", "a", "g", "e">>

W_length == <<"l", "e", "n", "g", "t", "h">>

W_name == <<"n", "a", "m", "e">>

\* the entries app.title and header.language of the two dictionaries
en ==
    JsObject((W_app :> JsObject(W_title :> JsString(<<"U", "s", "e", "r", " ", "D", "a", "s", "h", "b", "o", "a", "r", "d">>)))
             @@ (W_header :> JsObject(W_language :> JsString(<<"L", "a", "n", "g", "u", "a", "g", "e">>))))

es ==
    JsObject((W_app :> JsObject(W_title :> JsString(<<"P", "a", "n", "e", "l", " ", "d", "e", " ", "U", "s", "u", "a", "r", "i", "o">>)))
             @@ (W_header :> JsObject(W_language :> JsString(<<"I", "d", "i", "o", "m", "a">>))))

\* the own properties name and length of a function that Object.prototype provides
InheritedFunction(x) ==
    JsObject((W_name :> JsString(IF x = L_constructor THEN <<"O", "b", "j", "e", "c", "t">> ELSE x))
             @@ (W_length :> JsNumber(IF x \in {L_constructor, L_hasOwnProperty}
                                     THEN 1 ELSE 0)))

\* dictionaries[x]
dictionaries(x) ==
    IF x = L_en THEN en
    ELSE IF x = L_es THEN es
    ELSE IF x \in ObjectPrototypeKeys THEN InheritedFunction(x)
    ELSE JsUndefined

Truthy(v) ==
    CASE v.kind = "undefined" -> FALSE
      [] v.kind = "string" -> v.str # <<>>
      [] v.kind = "number" -> v.num # 0
      [] OTHER -> TRUE

DecDigits == {"0", "1", "2", "3", "4", "5", "6", "7", "8", "9"}

RECURSIVE DecVal(_)
DecVal(p) == IF p = <<>> THEN 0 ELSE 10 * DecVal(SubSeq(p, 1, Len(p) - 1)) + HexVal(p[Len(p)])

\* p is the canonical form of an array index
IsIndex(p) ==
    /\ p # <<>>
    /\ \A i \in 1..Len(p) : p[i] \in DecDigits
    /\ (Len(p) = 1 \/ p[1] # "0")

\* Object.prototype.hasOwnProperty.call(cur, p): a string owns length and its indices
HasOwnProperty(cur, p) ==
    CASE cur.kind = "object" -> p \in DOMAIN cur.fields
      [] cur.kind = "string" -> p = W_length \/ (IsIndex(p) /\ DecVal(p) < Len(cur.str))
      [] OTHER -> FALSE

\* cur[p] for an own property p
GetProperty(cur, p) ==
    CASE cur.kind = "object" -> cur.fields[p]
      [] p = W_length -> JsNumber(Len(cur.str))
      [] OTHER -> JsString(<<cur.str[DecVal(p) + 1]>>)

\* the loop of pathGet over the parts of the path, from part i on
RECURSIVE PathWalk(_, _, _)
PathWalk(cur, parts, i) ==
    IF i > Len(parts) THEN cur
    ELSE IF Truthy(cur) /\ HasOwnProperty(cur, parts[i])
    THEN PathWalk(GetProperty(cur, parts[i]), parts, i + 1)
    ELSE JsUndefined

pathGet(obj, path) ==
    IF ~Truthy(obj) \/ path = UNDEFINED THEN JsUndefined
    ELSE PathWalk(obj, Split(path, "."), 1)

\* interpolate(str, vars) when t is called without vars
interpolate(str) == str

\* t(key)
t(lang, key) ==
    LET dict == IF Truthy(dictionaries(lang)) THEN dictionaries(lang) ELSE dictionaries(L_en)
        val == pathGet(dict, key)
        fallback == pathGet(dictionaries(L_en), key)
        found == IF val.kind = "undefined"
                 THEN (IF fallback.kind # "undefined" THEN fallback ELSE JsString(key))
                 ELSE val
    IN  IF found.kind = "string" THEN interpolate(found) ELSE found

K_app_title == <<"a", "p", "p", ".", "t", "i", "t", "l", "e">>

K_app == <<"a", "p", "p">>

K_header_language == <<"h", "e", "a", "d", "e", "r", ".", "l", "a", "n", "g", "u", "a", "g", "e">>

K_app_subtitle == <<"a", "p", "p", ".", "s", "u", "b", "t", "i", "t", "l", "e">>

K_missing == <<"m", "i", "s", "s", "i", "n", "g">>

K_app_title_length == <<"a", "p", "p", ".", "t", "i", "t", "l", "e", ".", "l", "e", "n", "g", "t", "h">>

K_app_title_0 == <<"a", "p", "p", ".", "t", "i", "t", "l", "e", ".", "0">>

K_name == <<"n", "a", "m", "e">>

\* keys handed to t
TranslationKeys ==
    {K_app_title, K_app, K_header_language, K_app_subtitle, K_missing,
     K_app_title_length, K_app_title_0, K_name, <<>>}

\* t(key) called by a renderer
Translate(key) ==
    /\ op' = [name |-> "t", cb |-> NotAFunction, arg |-> key, reentered |-> FALSE,
              emitted |-> FALSE]
    /\ returned' = Ok(t(_currentLang, key))
    /\ invoked' = <<>>
    /\ thrown' = FALSE
    /\ UNCHANGED <<routerVars, burst, watch, lastEmitted, resub, observe, i18nVars, appVars>>

\* the translation registry alone
InitLang ==
    /\ RouterInit
    /\ hash = F_home
    /\ I18nInit
    /\ AppIdle
    /\ observe = "calls"

NextI18n ==
    \/ \E storage \in StorageArgs, acts \in LangActsOf(_langListeners) : InitI18n(storage, acts)
    \/ \E lang \in LangArgs, acts \in LangActsOf(_langListeners) : SetLanguage(lang, acts)
    \/ \E cb \in CB \cup {NotAFunction} : OnLanguageChange(cb)
    \/ \E cb \in CB \cup {NotAFunction} : OffLanguageChange(cb)
    \/ StorageCleared
    \/ \E key \in TranslationKeys : Translate(key)

SpecI18n == InitLang /\ [][NextI18n]_vars

\* the subscription interfaces of both registries and their notification passes
InitSubs ==
    /\ RouterInit
    /\ hash = F_home
    /\ I18nIdle
    /\ AppIdle
    /\ observe = "subscriptions"

NextSubs ==
    \/ InitRouter(NotAFunction, UNDEFINED, "return")
    \/ Navigate(P_status, FALSE, FALSE)
    \/ \E cb \in CB \cup {NotAFunction} : OnRouteChange(cb)
    \/ \E cb \in CB \cup {NotAFunction} : OffRouteChange(cb)
    \/ \E acts \in ActsOf(_listeners) : TimerFire(acts)
    \/ \E lang \in {L_en, L_fr}, acts \in LangActsOf(_langListeners) : SetLanguage(lang, acts)
    \/ \E cb \in CB \cup {NotAFunction} : OnLanguageChange(cb)
    \/ \E cb \in CB \cup {NotAFunction} : OffLanguageChange(cb)

SpecSubs == InitSubs /\ [][NextSubs]_vars

(***************************************************************************)
(* Operations on the stores of the shell and of the sidebar                *)
(***************************************************************************)
Namespaces == {N_app, N_app_sidebar}

StorageKeys == {Sk_expanded, Sk_sidebar_expanded}

\* objects handed to setJSON: expansion maps of the sidebar
ExpansionMaps ==
    {<<[k |-> "status", v |-> TRUE]>>,
     <<[k |-> "status", v |-> FALSE], [k |-> "basic", v |-> TRUE]>>}

\* texts handed to set; the last one is no JSON
StoredTexts == {L_es, <<"{", "status">>}

\* which methods of the backing store throw during a call
FailureModes == {{}, {"setItem"}, BackingMethods}

StorageDone(result, name, ns, key, defaultValue, fails) ==
  \E r \in {result} :
    /\ localStorage' = r.store
    /\ returned' = Ok(r.ret)
    /\ thrown' = r.threw
    /\ op' = [name |-> name, cb |-> NotAFunction,
              arg |-> [ns |-> ns, key |-> key, defaultValue |-> defaultValue,
                       fails |-> fails],
              reentered |-> FALSE, emitted |-> FALSE]
    /\ invoked' = <<>>
    /\ AppUntouched
    /\ UNCHANGED <<routerVars, burst, watch, lastEmitted, resub, observe,
                   _currentLang, _langListeners, _storage, navLang>>

StoreGet(ns, key, defaultValue, fails) ==
    StorageDone(get(localStorage, ns, key, defaultValue, fails), "get", ns, key,
                defaultValue, fails)

StoreSet(ns, key, value, fails) ==
    StorageDone(set(localStorage, ns, key, value, fails), "set", ns, key, NULL, fails)

StoreRemove(ns, key, fails) ==
    StorageDone(remove(localStorage, ns, key, fails), "remove", ns, key, NULL, fails)

StoreGetJSON(ns, key, defaultValue, fails) ==
    StorageDone(getJSON(localStorage, ns, key, defaultValue, fails), "getJSON", ns, key,
                defaultValue, fails)

StoreSetJSON(ns, key, value, fails) ==
    StorageDone(setJSON(localStorage, ns, key, value, fails), "setJSON", ns, key, NULL,
                fails)

StoreKeys(ns, fails) ==
    StorageDone(keys(localStorage, ns, fails), "keys", ns, <<>>, NULL, fails)

StoreClearAll(ns, fails) ==
    StorageDone(clearAll(localStorage, ns, fails), "clearAll", ns, <<>>, NULL, fails)

\* the stores alone
InitStorage ==
    /\ RouterInit
    /\ hash = F_home
    /\ I18nIdle
    /\ AppIdle
    /\ observe = "calls"

NextStorage ==
    \/ \E ns \in Namespaces, key \in StorageKeys, d \in {L_en}, fails \in FailureModes :
          StoreGet(ns, key, d, fails)
    \/ \E ns \in Namespaces, key \in StorageKeys, v \in StoredTexts, fails \in FailureModes :
          StoreSet(ns, key, v, fails)
    \/ \E ns \in Namespaces, key \in StorageKeys, fails \in FailureModes :
          StoreRemove(ns, key, fails)
    \/ \E ns \in Namespaces, key \in StorageKeys, d \in {<<>>}, fails \in FailureModes :
          StoreGetJSON(ns, key, d, fails)
    \/ \E ns \in Namespaces, key \in StorageKeys, v \in ExpansionMaps, fails \in FailureModes :
          StoreSetJSON(ns, key, v, fails)
    \/ \E ns \in Namespaces, fails \in FailureModes : StoreKeys(ns, fails)
    \/ \E ns \in Namespaces, fails \in FailureModes : StoreClearAll(ns, fails)

SpecStorage == InitStorage /\ [][NextStorage]_vars

(***************************************************************************)
(* The composed shell: load, signals and user actions                      *)
(***************************************************************************)
\* the listeners the load registers with the router and with the registry
ShellRouteListeners == {"sidebarRoute", "renderRoute"}

ShellLangListeners == <<"sidebarLang", "headerLang", "renderRouteLang">>

\* what each listener of the router does when called; a placeholder returns
AppRouteActs ==
    [cb \in Placeholders \cup ShellRouteListeners |->
        CASE cb = "sidebarRoute" -> "sidebar"
          [] cb = "renderRoute" -> "render"
          [] OTHER -> "return"]

AppLangActs ==
    [cb \in Range(ShellLangListeners) |->
        CASE cb = "sidebarLang" -> "sidebar"
          [] cb = "headerLang" -> "header"
          [] OTHER -> "render"]

AppCommit(a) ==
    /\ mainContent' = a.main
    /\ sidebarContent' = a.sidebar
    /\ headerContent' = a.header
    /\ rebuilt' = a.rebuilt
    /\ reported' = a.reported
    /\ rendererThrew' = a.rendererThrew

\* the module body of main.js, run once when the page loads over fragment h
\* and backing store store0
Load(h, store0) ==
    LET \* initI18n(adapter)
        registry == initI18n([currentLang |-> L_en, listeners |-> <<>>,
                              storage |-> NoStorage, localStorage |-> store0,
                              invoked |-> <<>>, thrown |-> FALSE, resub |-> {},
                              app |-> <<>>],
                             Adapter, <<>>)
        \* initAppShell, initRouter
        containers(l) ==
            [main |-> EmptyMain, sidebar |-> EmptySidebar, header |-> EmptyHeader,
             rebuilt |-> {}, reported |-> FALSE, rendererThrows |-> FALSE,
             rendererThrew |-> FALSE, threw |-> FALSE,
             lang |-> l.currentLang, store |-> l.localStorage, hash |-> h,
             currentRoute |-> NullRoute, routeListeners |-> <<>>]
        \* initSidebar: render, attach, subscribe
        sidebar(a) == [routeListener(a) EXCEPT
                          !.routeListeners = SetAdd(@, "sidebarRoute")]
        \* initHeader
        header(a) == renderHeader(a)
        \* onRouteChange(() => renderRoute()), onLanguageChange(...), renderRoute()
        shell(a) == Eval([a EXCEPT !.routeListeners = SetAdd(@, "renderRoute")],
                         LAMBDA x : renderRoute(x))
    IN  Eval(Eval(Eval(Eval(registry, containers), sidebar), header), shell)

\* the timer of the router expires while the shell is composed
AppTimerFire(throws) ==
    /\ armedTimers > 0
    /\ LET st0 == [RouterState EXCEPT
                      !.armedTimers = @ - 1,
                      !.debounceTimer = NoTimer,
                      !.app = [@ EXCEPT !.rendererThrows = throws]]
       IN  \E st1 \in {handleRouteChange(st0, AppRouteActs)} :
               /\ RouterDone(st1, "timer", NotAFunction, NoReturn)
               /\ AppCommit(st1.app)

\* a click on one of the header's language buttons
HeaderLanguageClick(lang, throws) ==
    LET st0 == [LangState EXCEPT !.app = [@ EXCEPT !.rendererThrows = throws]]
        stored(st) == [st EXCEPT !.localStorage = set(@, N_app, Sk_lang, lang, {}).store]
    IN  \E st2 \in {Eval(setLanguage(st0, lang, AppLangActs), stored)} :
        /\ LangCommit(st2, "setLanguage", NotAFunction, lang)
        /\ AppCommit(st2.app)
        /\ _listeners' = st2.app.routeListeners
        /\ UNCHANGED <<hash, _defaultRoute, _currentRoute, _isInitialized, _debounceTimer,
                       armedTimers, pendingSignals, subscriptions>>

\* the groups whose toggle button is clicked
ToggledGroups == {"status"}

\* a click on the toggle button of group groupId: the handler flips the saved
\* value and sets the attributes of the group's elements from it
SidebarToggle(groupId) ==
    \E expanded \in {getExpandedMap(AppState)} :
    LET next == ~IsOpen(expanded, groupId)
        a1 == setExpandedMap(AppState, Assign(expanded, groupId, next))
    IN  \E a2 \in {[a1 EXCEPT !.sidebar.open = IF next THEN @ \cup {groupId}
                                                ELSE @ \ {groupId}]} :
        /\ AppCommit(a2)
        /\ localStorage' = a2.store
        /\ op' = [name |-> "toggle", cb |-> NotAFunction, arg |-> groupId,
                  reentered |-> FALSE, emitted |-> FALSE]
        /\ invoked' = <<>>
        /\ returned' = NoReturn
        /\ thrown' = FALSE
        /\ UNCHANGED <<routerVars, burst, watch, lastEmitted, resub, observe,
                       _currentLang, _langListeners, _storage, navLang>>

\* a click on Logout: the session and username entries, which nothing here
\* writes, are removed, then navigate('/home')
HeaderLogout ==
    /\ pendingSignals = 0
    /\ remove(remove(localStorage, N_app, <<"session">>, {}).store, N_app,
              <<"username">>, {}).store = localStorage
    /\ Done(navigate(RouterState, S_home, FALSE, FALSE), "logout", NotAFunction,
            NoReturn)

\* the user follows a link once the previous change of the fragment was delivered
FollowLink(f) ==
    /\ pendingSignals = 0
    /\ UserSetsHash(f)

\* fragments the page is loaded with and the user moves to
AppFragments == {F_home, F_home_x, F_application, F_home_malformed, F_basic_wifi}

\* what an earlier session has left in the backing store: nothing, or Spanish
\* and the basic group open
AppStores ==
    {EmptyObject,
     Put(Put(EmptyObject, _storageKey, L_es), withNamespace(N_app_sidebar, Sk_expanded),
         JsonStringify(<<[k |-> "basic", v |-> TRUE]>>))}

\* the state once the module body of main.js has run
InitApp ==
    /\ navLang = N_enUS
    /\ observe = "calls"
    /\ hash \in AppFragments
    /\ \E store0 \in AppStores :
          \E a \in {Load(hash, store0)} :
              /\ _currentLang = a.lang
              /\ _langListeners = ShellLangListeners
              /\ _storage = Adapter
              /\ localStorage = a.store
              /\ _listeners = a.routeListeners
              /\ thrown = a.threw
              /\ mainContent = a.main
              /\ sidebarContent = a.sidebar
              /\ headerContent = a.header
              /\ rebuilt = a.rebuilt
              /\ reported = a.reported
              /\ rendererThrew = a.rendererThrew
    /\ _defaultRoute = S_home
    /\ _currentRoute = NullRoute
    /\ _isInitialized = TRUE
    /\ _debounceTimer = TimerHandle
    /\ armedTimers = 1
    /\ pendingSignals = 0
    /\ subscriptions = 1
    /\ burst = NoBurst
    /\ watch = NoWatch
    /\ lastEmitted = NullRoute
    /\ invoked = <<>>
    /\ op = NoOp
    /\ returned = NoReturn
    /\ resub = {}

NextApp ==
    \/ \E throws \in BOOLEAN : AppTimerFire(throws)
    \/ DeliverSignal
    \/ \E f \in AppFragments : FollowLink(f)
    \/ \E lang \in DictionaryKeys, throws \in BOOLEAN : HeaderLanguageClick(lang, throws)
    \/ \E groupId \in ToggledGroups : SidebarToggle(groupId)
    \/ HeaderLogout

SpecApp == InitApp /\ [][NextApp]_vars

(***************************************************************************)
(* Properties of the router                                                *)
(***************************************************************************)
\* the whitelist rule of the route model, stated on its own
WhitelistAllows(path) ==
    \E base \in ROUTE_WHITELIST :
        \/ path = base
        \/ /\ Len(path) > Len(base)
           /\ SubSeq(path, 1, Len(base) + 1) = base \o <<"/">>

\* no debounce timer is pending and no change signal is queued
Settled ==
    /\ _debounceTimer = NoTimer
    /\ armedTimers = 0
    /\ pendingSignals = 0

\* C1: in every reachable state currentRoute is null or a route whose path
\* equals a whitelist entry or starts with a whitelist entry followed by '/'.
C1_CurrentRouteAllowed ==
    \/ _currentRoute = NullRoute
    \/ WhitelistAllows(_currentRoute.path)

C1_Witness ==
    /\ _currentRoute # NullRoute
    /\ _currentRoute.path = S_basic_network
    /\ hash = F_homex

\* C2: after navigate(p) with a disallowed or empty normalized path, and no
\* other navigation or reconfiguration since, once the debounce timer has fired
\* and nothing is pending, currentRoute.path is the configured default route.
C2_RedirectToDefault ==
    (/\ watch.phase = "resolved"
     /\ ~WhitelistAllows(normalizePath(watch.path))
     /\ Settled)
    => /\ _currentRoute # NullRoute
       /\ _currentRoute.path = _defaultRoute

C2_Witness ==
    /\ watch.phase = "resolved"
    /\ watch.path = P_empty
    /\ Settled
    /\ _defaultRoute = S_status
    /\ _currentRoute.path = S_status

\* C3: the calls of debouncedHandleRouteChange made while a timer is pending
\* leave one timer armed; when it expires handleRouteChange has run exactly
\* once for the window, with at most one notification batch.
C3_DebounceCollapses ==
    /\ armedTimers <= 1
    /\ (armedTimers = 1) = (_debounceTimer # NoTimer)
    /\ burst.batches <= burst.runs
    /\ (armedTimers > 0 => burst.runs = 0)
    /\ (armedTimers = 0 /\ burst.calls > 0 => burst.runs = 1)

C3_Witness ==
    /\ burst.calls >= 3
    /\ armedTimers = 0
    /\ burst.runs = 1
    /\ burst.batches = 1

\* C4: after navigate(p) to an allowed path, once resolution has settled,
\* getRoute() returns the route of p: its normalized path, its segments and
\* the query parameters given to navigate.
C4_NavigateKeepsParams ==
    (/\ watch.phase = "resolved"
     /\ WhitelistAllows(normalizePath(watch.path))
     /\ Settled)
    => getRoute(RouterState) =
          Ok([path |-> normalizePath(watch.path),
              segments |-> toSegments(normalizePath(watch.path)),
              params |-> parseParams(watch.path).val])

\* C5: no operation ends with an exception, whatever the fragment is.
C5_NeverThrows == ~thrown

\* C6: in one notification pass every listener registered at the start of the
\* pass is invoked with the new route, whichever listeners throw, and no
\* exception leaves the resolution.
C6_AllListenersInvoked ==
    [][(op'.name = "timer" /\ op'.emitted)
       => /\ \A i \in 1..Len(_listeners) :
                \E j \in 1..Len(invoked') :
                   /\ invoked'[j].cb = _listeners[i]
                   /\ invoked'[j].arg = _currentRoute'
          /\ ~thrown']_vars

C6_Witness ==
    /\ op.name = "timer"
    /\ op.emitted
    /\ Len(invoked) = 2
    /\ invoked[1].threw
    /\ ~invoked[2].threw

\* C7: initRouter with a listener, called while the router is initialized,
\* registers the listener and invokes it with the last known route within the
\* call; it adds no platform subscription and schedules no resolution.
C7_LateSubscriberReplay ==
    [][(_isInitialized /\ op'.name = "initRouter" /\ op'.cb # NotAFunction)
       => /\ op'.cb \in Range(_listeners')
          /\ (_currentRoute # NullRoute
                => /\ Len(invoked') = 1
                   /\ invoked'[1].cb = op'.cb
                   /\ invoked'[1].arg = _currentRoute)
          /\ subscriptions' = subscriptions
          /\ (~op'.reentered
                => /\ armedTimers' = armedTimers
                   /\ _debounceTimer' = _debounceTimer
                   /\ pendingSignals' = pendingSignals
                   /\ hash' = hash)]_vars

C7_Witness ==
    /\ op.name = "initRouter"
    /\ ~op.reentered
    /\ Len(invoked) = 1
    /\ invoked[1].cb = op.cb
    /\ invoked[1].arg = _currentRoute
    /\ Settled

\* C8: getRoute() returns the route of the last emission once a resolution has
\* emitted one, and otherwise the route parsed from the current raw fragment;
\* it changes nothing of the router's state.
C8_GetRouteReturnsRoute ==
    [][op'.name = "getRoute"
       => /\ returned'.ok
          /\ returned'.val = IF lastEmitted # NullRoute
                             THEN lastEmitted
                             ELSE buildRouteFrom(hash, hash).val
          /\ UNCHANGED routerVars]_vars

(***************************************************************************)
(* Properties of the subscription interfaces                               *)
(***************************************************************************)
Count(calls, cb) == Cardinality({j \in 1..Len(calls) : calls[j].cb = cb})

NoDuplicates(s) == \A i, j \in 1..Len(s) : s[i] = s[j] => i = j

\* C9: subscriptions of the router and of the translation registry are sets:
\* a callback subscribed any number of times is invoked exactly once per
\* notification pass, one unsubscribe removes it, and unsubscribing a callback
\* that is not registered leaves the listeners unchanged.
C9_SetSemantics ==
    [][/\ NoDuplicates(_listeners')
       /\ NoDuplicates(_langListeners')
       /\ (op'.name = "timer" /\ op'.emitted
             => \A cb \in Range(_listeners) : Count(invoked', cb) = 1)
       /\ (op'.name = "setLanguage" /\ op'.emitted
             => \A cb \in Range(_langListeners) : Count(invoked', cb) = 1)
       /\ (op'.name = "onRouteChange" /\ op'.cb \in Range(_listeners)
             => _listeners' = _listeners)
       /\ (op'.name = "onLanguageChange" /\ op'.cb \in Range(_langListeners)
             => _langListeners' = _langListeners)
       /\ (op'.name = "offRouteChange" /\ op'.cb # NotAFunction
             => /\ op'.cb \notin Range(_listeners')
                /\ (op'.cb \notin Range(_listeners) => _listeners' = _listeners))
       /\ (op'.name = "offLanguageChange" /\ op'.cb # NotAFunction
             => /\ op'.cb \notin Range(_langListeners')
                /\ (op'.cb \notin Range(_langListeners)
                      => _langListeners' = _langListeners))]_vars

C9_Witness ==
    /\ op.name = "setLanguage"
    /\ <<"lang", "cb1">> \in resub
    /\ <<"route", "cb1">> \in resub
    /\ Count(invoked, "cb1") = 1
    /\ Len(invoked) = 2
    /\ lastEmitted # NullRoute

(***************************************************************************)
(* Properties of the translation registry                                  *)
(***************************************************************************)
\* C10: in every reachable state the current language is a key of the
\* dictionaries mapping (en or es).
C10_LangIsDictionaryKey == _currentLang \in DictionaryKeys

\* C11: setLanguage(code) with a code that is no key of the dictionaries leaves
\* the current language and the persisted language unchanged and invokes no
\* language listener.
C11_UnknownCodeIsNoOp ==
    [][(op'.name = "setLanguage" /\ op'.arg \notin DictionaryKeys)
       => /\ _currentLang' = _currentLang
          /\ localStorage' = localStorage
          /\ invoked' = <<>>]_vars

\* C12: setLanguage(code) with a registered code makes code the current and the
\* persisted language and then invokes every registered language listener with
\* code, whichever of them throw; no exception leaves the call.
C12_SetLanguageNotifiesAll ==
    [][(op'.name = "setLanguage" /\ op'.arg \in DictionaryKeys)
       => /\ _currentLang' = op'.arg
          /\ Persisted(localStorage') = op'.arg
          /\ Len(invoked') = Len(_langListeners)
          /\ \A i \in 1..Len(_langListeners) :
                /\ i <= Len(invoked')
                /\ invoked'[i].cb = _langListeners[i]
                /\ invoked'[i].arg = op'.arg
                /\ invoked'[i].current = op'.arg
                /\ invoked'[i].stored = op'.arg
          /\ ~thrown']_vars

C12_Witness ==
    /\ op.name = "setLanguage"
    /\ op.arg = L_es
    /\ _currentLang = L_es
    /\ Len(invoked) = 2
    /\ invoked[1].threw
    /\ ~invoked[2].threw

\* the language initI18n is to resolve: the persisted code if registered, else
\* the two-letter prefix of the locale if registered, else 'en'
ResolvedLang(store, locale) ==
    LET saved == Persisted(store)
        short == IF locale = UNDEFINED THEN <<>> ELSE ToLowerCase(Slice2(locale, 0, 2))
    IN  IF saved \in DictionaryKeys THEN saved
        ELSE IF short \in DictionaryKeys THEN short
        ELSE L_en

\* C13: after initI18n(store), whatever the registry held before, the current
\* language is the persisted code if registered, else the locale's prefix if
\* registered, else 'en'; the store holds that language and each listener has
\* been notified exactly once.
C13_InitResolvesLanguage ==
    [][op'.name = "initI18n"
       => /\ _currentLang' = ResolvedLang(localStorage, navLang)
          /\ Persisted(localStorage') = _currentLang'
          /\ Len(invoked') = Len(_langListeners)
          /\ \A cb \in Range(_langListeners) : Count(invoked', cb) = 1]_vars

\* the entry a dot-separated key names in a dictionary: only objects are descended
RECURSIVE Entry(_, _, _)
Entry(node, parts, i) ==
    IF i > Len(parts) THEN node
    ELSE IF node.kind = "object" /\ parts[i] \in DOMAIN node.fields
    THEN Entry(node.fields[parts[i]], parts, i + 1)
    ELSE JsUndefined

EntryOf(lang, key) ==
    IF lang \in DictionaryKeys THEN Entry(dictionaries(lang), Split(key, "."), 1)
    ELSE JsUndefined

\* C14: t(key) returns the entry of the current language's dictionary if there
\* is one, else the entry of the en dictionary if there is one, else the key
\* itself; it never throws and never returns undefined.
C14_TranslateFallsBack ==
    [][op'.name = "t"
       => /\ returned'.ok
          /\ ~thrown'
          /\ returned'.val.kind # "undefined"
          /\ returned'.val =
                IF EntryOf(_currentLang, op'.arg).kind # "undefined"
                THEN EntryOf(_currentLang, op'.arg)
                ELSE IF EntryOf(L_en, op'.arg).kind # "undefined"
                THEN EntryOf(L_en, op'.arg)
                ELSE JsString(op'.arg)]_vars

(***************************************************************************)
(* Properties of the namespaced store                                      *)
(***************************************************************************)
StorageOperations == {"get", "set", "remove", "getJSON", "setJSON", "keys", "clearAll"}

\* C20: no operation of a store made by createStorage throws; when every method
\* of the backing store throws, get and getJSON return the supplied default,
\* set, setJSON and remove return false, keys returns the empty sequence, and
\* the backing store is left as it was.
C20_StorageNeverThrows ==
    [][op'.name \in StorageOperations
       => /\ ~thrown'
          /\ returned'.ok
          /\ (op'.arg.fails = BackingMethods
                => /\ localStorage' = localStorage
                   /\ (op'.name \in {"get", "getJSON"}
                         => returned'.val = op'.arg.defaultValue)
                   /\ (op'.name \in {"set", "setJSON", "remove"}
                         => returned'.val = FALSE)
                   /\ (op'.name = "keys" => returned'.val = <<>>))]_vars

C20_Witness ==
    /\ op.name = "setJSON"
    /\ op.arg.fails = BackingMethods
    /\ returned.val = FALSE
    /\ ~thrown
    /\ withNamespace(N_app_sidebar, Sk_expanded) \in DOMAIN localStorage

(***************************************************************************)
(* Properties of the composed shell                                        *)
(***************************************************************************)
\* the path renderRoute works with when the router holds route and fragment
RenderedPath(route, fragment) ==
    LET r == getRoute([currentRoute |-> route, hash |-> fragment])
    IN  IF r.val.path = <<>> THEN S_home ELSE r.val.path

\* the page table: prefixes in order, each with its page
PageTable ==
    <<[prefix |-> S_home, page |-> "home"],
      [prefix |-> S_status, page |-> "status"],
      [prefix |-> S_basic, page |-> "basic"],
      [prefix |-> S_advanced, page |-> "advanced"],
      [prefix |-> S_management, page |-> "management"],
      [prefix |-> S_application, page |-> "application"]>>

\* the page of the first prefix the path equals or lies below, else not-found
TablePage(path) ==
    LET hits == {i \in 1..Len(PageTable) :
                    \/ path = PageTable[i].prefix
                    \/ StartsWith(path, PageTable[i].prefix \o <<"/">>)}
    IN  IF hits = {} THEN "notFound"
        ELSE PageTable[CHOOSE i \in hits : \A j \in hits : i <= j].page

\* C15: whenever renderRoute has rendered a page, it is the page of the prefix
\* the route path equals or starts with (prefix + '/'), and the not-found page
\* only when no prefix of the table matches.
C15_PrefixSelectsRenderer ==
    [][("main" \in rebuilt' /\ ~rendererThrew')
          => mainContent'.page = TablePage(RenderedPath(_currentRoute', hash'))]_vars

\* the steps that carry a notification pass of the router or of the registry
RoutePass == op.name = "timer" /\ op.emitted

LanguagePass == op.name = "setLanguage" /\ op.emitted

\* C16: when the page renderer throws during a notification pass, the main
\* container shows the error placeholder, the error is reported, renderRoute
\* returns normally to the pass, and every registered listener of the pass runs.
C16_RendererFailureContained ==
    [][((RoutePass' \/ LanguagePass') /\ rendererThrew')
          => /\ mainContent' = ErrorPlaceholder
             /\ reported'
             /\ ~thrown'
             /\ \A i \in 1..Len(invoked') :
                   invoked'[i].cb \in {"renderRoute", "renderRouteLang"}
                      => ~invoked'[i].threw
             /\ {invoked'[i].cb : i \in 1..Len(invoked')}
                   = Range(IF op'.name = "timer" THEN _listeners' ELSE _langListeners')]_vars

C16_Witness ==
    /\ RoutePass
    /\ rendererThrew
    /\ mainContent = ErrorPlaceholder
    /\ \E i, j \in 1..Len(invoked) :
          /\ i < j
          /\ invoked[i].cb = "renderRoute"
          /\ invoked[j].cb \in Placeholders

\* what the main container shows when the renderer resolved for the router's
\* current route has rendered in language lang; no page at all when the
\* current route cannot be read
RenderedMain(route, fragment, lang) ==
    LET r == getRoute([currentRoute |-> route, hash |-> fragment])
    IN  IF r.ok
        THEN PageOutput(r.val, IF r.val.path = <<>> THEN S_home ELSE r.val.path, lang)
        ELSE EmptyMain

\* C17: after a route-change pass and after a language-change pass in which the
\* renderer does not throw, the main container shows the output of the renderer
\* resolved for the current route, in the current language.
C17_MainFollowsNotifications ==
    [][((RoutePass' \/ LanguagePass') /\ ~rendererThrew')
          => /\ "main" \in rebuilt'
             /\ mainContent' = RenderedMain(_currentRoute', hash', _currentLang')]_vars

SavedOpen(store) ==
    {g \in NavGroups : IsOpen(getJSON(store, N_app_sidebar, Sk_expanded, <<>>, {}).ret, g)}

\* C19: a toggle flips the saved value of its group and of no other group, no
\* other step changes the saved map, and every full rebuild of the sidebar
\* renders each group open or closed as the saved map says.
C19_ToggleSurvivesRebuilds ==
    [][/\ op'.name = "toggle"
            => SavedOpen(localStorage') =
                  IF op'.arg \in SavedOpen(localStorage)
                  THEN SavedOpen(localStorage) \ {op'.arg}
                  ELSE SavedOpen(localStorage) \cup {op'.arg}
       /\ op'.name # "toggle" => SavedOpen(localStorage') = SavedOpen(localStorage)
       /\ "sidebar" \in rebuilt' => sidebarContent'.open = SavedOpen(localStorage')]_vars

C19_Witness ==
    /\ LanguagePass
    /\ "sidebar" \in rebuilt
    /\ sidebarContent.open = {"status", "basic"}
    /\ sidebarContent.lang = L_en

(***************************************************************************)
(* Properties of the stores' namespaces                                    *)
(***************************************************************************)
\* keys() of the store named ns lists the backing key k
ListedBy(store, ns, k) ==
    \E i \in 1..Len(keys(store, ns, {}).ret) :
        withNamespace(ns, keys(store, ns, {}).ret[i]) = k

\* the entries the store named ns reads under the keys its owner uses
EntriesOf(store, ns) ==
    [key \in StorageKeys |-> get(store, ns, key, NULL, {}).ret]

\* C21: keys() and clearAll() of a store are scoped to its namespace: keys()
\* of one store never lists an entry written through a store with another
\* namespace, and clearAll() of one store leaves the entries of every other
\* store unchanged.
C21_NamespaceScoped ==
    [][/\ (op'.name \in {"set", "setJSON"} /\ returned'.val = TRUE)
          => \A other \in Namespaces \ {op'.arg.ns} :
                ~ListedBy(localStorage', other,
                          withNamespace(op'.arg.ns, op'.arg.key))
       /\ op'.name = "clearAll"
          => \A other \in Namespaces \ {op'.arg.ns} :
                EntriesOf(localStorage', other) = EntriesOf(localStorage, other)]_vars

(***************************************************************************)
(* normalizePath alone                                                     *)
(***************************************************************************)
MaxPathLen == 3

\* the characters normalizePath treats specially, and a letter
PathAlphabet == {" ", "#", "!", "?", "/", "a"}

\* every string over the alphabet, up to the bound
PathInputs == UNION {[1..n -> PathAlphabet] : n \in 0..MaxPathLen}

\* normalizePath(x)
NormalizePath(x) ==
    /\ op' = [name |-> "normalizePath", cb |-> NotAFunction, arg |-> x,
              reentered |-> FALSE, emitted |-> FALSE]
    /\ returned' = Ok(normalizePath(x))
    /\ invoked' = <<>>
    /\ thrown' = FALSE
    /\ UNCHANGED <<routerVars, burst, watch, lastEmitted, resub, observe, i18nVars, appVars>>

InitNormalize ==
    /\ RouterInit
    /\ hash = F_home
    /\ I18nIdle
    /\ AppIdle
    /\ observe = "calls"

NextNormalize == \E x \in PathInputs : NormalizePath(x)

SpecNormalize == InitNormalize /\ [][NextNormalize]_vars

\* C22: normalizePath is idempotent: applied to its own result it returns
\* that result, for every string, including strings with whitespace, '#',
\* '!', '?' and repeated or trailing slashes.
C22_NormalizeIdempotent ==
    op.name = "normalizePath" => normalizePath(returned.val) = returned.val

(***************************************************************************)
(* Resolution of the fragment: redirects and settling                      *)
(***************************************************************************)
\* listeners that return or throw, and start no navigation of their own
QuietActsOf(ls) == [Range(ls) \cup {LateCallback} -> {"return", "throw"}]

\* the debounce timer expires
ResolveTimerFire == \E acts \in QuietActsOf(_listeners) : TimerFire(acts)

InitResolve ==
    /\ RouterInit
    /\ I18nIdle
    /\ AppIdle
    /\ observe = "calls"

NextResolve ==
    \/ \E cb \in {"cb1", NotAFunction}, dr \in DefaultRouteOptions :
          InitRouter(cb, dr, "return")
    \/ \E path \in CallPaths, o \in NavOptions : Navigate(path, o.replace, o.silent)
    \/ ResolveTimerFire
    \/ DeliverSignal
    \/ \E f \in Fragments : UserSetsHash(f)

\* the platform runs an expired timer and delivers a queued signal in the end
SpecResolve ==
    /\ InitResolve
    /\ [][NextResolve]_vars
    /\ WF_vars(ResolveTimerFire)
    /\ WF_vars(DeliverSignal)

\* C23: resolution of a disallowed fragment terminates for every default
\* route initRouter accepts: once a resolution has redirected, the fragment is
\* that of the default route and its path is allowed, so that the next
\* resolution emits it and schedules no further redirect.
C23_RedirectTerminates ==
    (op.name = "timer" /\ ~op.emitted /\ ~thrown)
    => /\ hash = <<"#">> \o _defaultRoute
       /\ isAllowedRoute(normalizePath(hash))

(***************************************************************************)
(* One navigate call at a time                                              *)
(***************************************************************************)
\* the application calls navigate while nothing is scheduled or queued
NavigateOnce(path) ==
    /\ _isInitialized
    /\ Settled
    /\ Navigate(path, FALSE, FALSE)

InitOnce ==
    /\ RouterInit
    /\ I18nIdle
    /\ AppIdle
    /\ observe = "once"

NextOnce ==
    \/ \E cb \in CB \cup {NotAFunction} : InitRouter(cb, UNDEFINED, "return")
    \/ \E path \in {P_status, P_basic_wifi} : NavigateOnce(path)
    \/ ResolveTimerFire
    \/ DeliverSignal

SpecOnce == InitOnce /\ [][NextOnce]_vars

\* C24: one non-silent navigate call to an allowed path results in exactly
\* one resolution and one notification batch, whether the platform's change
\* signal is delivered before or after the debounce timer expires.
C24_OneResolutionPerNavigate ==
    (watch.phase # "none" /\ WhitelistAllows(normalizePath(watch.path)))
    => /\ watch.runs <= 1
       /\ watch.batches <= 1
       /\ (watch.phase = "resolved" /\ Settled)
             => (watch.runs = 1 /\ watch.batches = 1)

(***************************************************************************)
(* Properties of navigate                                                  *)
(***************************************************************************)
\* C25: when a listener calls navigate during a notification pass, no nested
\* pass starts: every listener of the running pass is invoked once, with the
\* route of the pass, currentRoute is that route at the end of the pass, and
\* the new navigation is left to a pending debounce timer.
C25_NavigateInPassIsDeferred ==
    [][(op'.name = "timer" /\ op'.emitted /\ _debounceTimer' # NoTimer)
       => /\ _currentRoute' = buildRouteFrom(hash, hash).val
          /\ \A j \in 1..Len(invoked') : invoked'[j].arg = buildRouteFrom(hash, hash).val
          /\ \A i \in 1..Len(_listeners) : Count(invoked', _listeners[i]) = 1
          /\ \A i \in 1..Len(_listeners') : Count(invoked', _listeners'[i]) <= 1
          /\ armedTimers' = 1
          /\ hash' = <<"#">> \o normalizePath(ListenerNavTarget)]_vars

C25_Witness ==
    /\ op.name = "timer"
    /\ op.emitted
    /\ Len(invoked) = 2
    /\ invoked[1].arg = _currentRoute
    /\ invoked[2].arg = _currentRoute
    /\ _currentRoute.path = S_basic_network
    /\ hash = <<"#">> \o normalizePath(ListenerNavTarget)
    /\ armedTimers = 1

\* C26: navigate(path, {silent: true}) writes the normalized path to the
\* location and schedules nothing: the timers, currentRoute and the listeners
\* are as before the call; navigate without silent writes the path as well
\* and always leaves a debounce timer pending.
C26_SilentNavigateSchedulesNothing ==
    [][op'.name = "navigate"
       => \A path \in CallPaths, o \in NavOptions :
             Navigate(path, o.replace, o.silent)
             => /\ hash' = <<"#">> \o normalizePath(path)
                /\ _currentRoute' = _currentRoute
                /\ _listeners' = _listeners
                /\ o.silent => /\ armedTimers' = armedTimers
                               /\ _debounceTimer' = _debounceTimer
                /\ ~o.silent => /\ armedTimers' > 0
                                /\ _debounceTimer' # NoTimer]_vars

C26_Witness ==
    /\ op.name = "navigate"
    /\ armedTimers = 0
    /\ _debounceTimer = NoTimer
    /\ pendingSignals = 1
    /\ hash = <<"#">> \o normalizePath(P_status)
    /\ _currentRoute.path = S_basic_network

(***************************************************************************)
(* Properties of the sidebar's subscriptions                               *)
(***************************************************************************)
\* C27: the route-change callback attachBehaviors registers is removed by the
\* teardown it returns: a full rebuild of the sidebar (teardown, render,
\* attachBehaviors) leaves the number of callbacks registered in the router
\* as it was.
C27_SidebarListenersSymmetric ==
    [][("sidebar" \in rebuilt') => Len(_listeners') = Len(_listeners)]_vars

(***************************************************************************)
(* The language and its persisted copy                                     *)
(***************************************************************************)
\* a click on a language button of the header, which exists once the load
\* has run initI18n
LanguageClick(lang) ==
    /\ _storage # NoStorage
    /\ HeaderLanguageClick(lang, FALSE)

NextLanguage ==
    \/ \E storage \in StorageArgs, acts \in LangActsOf(_langListeners) :
          InitI18n(storage, acts)
    \/ \E lang \in LangArgs, acts \in LangActsOf(_langListeners) : SetLanguage(lang, acts)
    \/ \E lang \in DictionaryKeys : LanguageClick(lang)

SpecLanguage == InitLang /\ [][NextLanguage]_vars

\* C28: after initI18n and any sequence of setLanguage calls and clicks on the
\* header's language buttons, with a working store, the value persisted under
\* the language key equals the current language.
C28_PersistedLanguageIsCurrent ==
    _storage # NoStorage => Persisted(localStorage) = _currentLang

C28_Witness ==
    /\ _storage = Adapter
    /\ op.name = "setLanguage"
    /\ op.arg = L_es
    /\ _currentLang = L_es
    /\ Persisted(localStorage) = L_es
    /\ navLang = N_enUS

(***************************************************************************)
(* The sidebar's route and the router's                                    *)
(***************************************************************************)
\* C29: after a resolution that leaves no debounce timer pending, the route
\* path the sidebar highlights from equals currentRoute.path, for every
\* fragment, including fragments with a query string, a trailing slash or
\* repeated slashes.
C29_SidebarPathIsCurrentRoute ==
    (op.name = "timer" /\ op.emitted /\ armedTimers = 0)
    => sidebarContent.path = _currentRoute.path

(***************************************************************************)
(* Settling of the router                                                  *)
(***************************************************************************)
\* the router is at rest on the allowed route of the location's fragment
AtRest ==
    /\ Settled
    /\ _currentRoute # NullRoute
    /\ _currentRoute.path = normalizePath(hash)
    /\ isAllowedRoute(_currentRoute.path)

\* C30: if, after initRouter and finitely many navigate calls and changes of
\* the fragment, no further call or change occurs, then eventually no
\* debounce timer is pending and currentRoute.path is the normalized path of
\* the fragment, an allowed path, and it stays so.
C30_EventuallyAtRest ==
    (<>[][op'.name \in {"timer", "hashchange"}]_vars /\ <>_isInitialized)
    => <>[]AtRest

====
